---------------------------- MODULE Spec2Model ----------------------------
(***************************************************************************)
(* A model of the data structures of the poly-commit crate: the KZG10 and  *)
(* Marlin-KZG10 keys, commitments, randomness and proofs, the labeled      *)
(* wrappers, and the additive secret-sharing extension.                    *)
(*                                                                         *)
(* The scalar field E::Fr is the prime field Z_Q.  A G1 (or G2) element    *)
(* a*G is represented by its scalar a in Z_Q, so that group addition is    *)
(* addition mod Q, scalar multiplication is multiplication mod Q and the   *)
(* pairing e(a*G, b*H) is a*b mod Q.  A polynomial is the sequence of its  *)
(* coefficients, lowest first, without trailing zeros (the dense form).    *)
(***************************************************************************)
EXTENDS Integers, Sequences, FiniteSets, TLC

(***************************************************************************)
(* Bounds of the model.                                                    *)
(***************************************************************************)
MaxDeg == 2
MaxDegree == 4
MaxShares == 3
MaxBlindDeg == 1

(***************************************************************************)
(* The scalar field and the groups.                                        *)
(***************************************************************************)
Q == 5

Fr == 0 .. (Q - 1)

G1 == 0 .. (Q - 1)

FAdd(a, b) == (a + b) % Q

FSub(a, b) == (a - b + Q) % Q

FNeg(a) == (Q - a) % Q

FMul(a, b) == (a * b) % Q

RECURSIVE FPow(_, _)
FPow(a, n) == IF n = 0 THEN 1 % Q ELSE FMul(a, FPow(a, n - 1))

\* into_projective() + into_projective(), into_affine(): the group law.
GAdd(a, b) == (a + b) % Q

GSub(a, b) == (a - b + Q) % Q

\* AffineCurve::mul: scalar multiplication.
GMul(a, f) == (a * f) % Q

GZero == 0

\* PairingEngine::pairing on the scalar representation.
Pairing(a, b) == (a * b) % Q

(***************************************************************************)
(* Option<T>.                                                              *)
(***************************************************************************)
None == [some |-> FALSE]

Some(x) == [some |-> TRUE, v |-> x]

IsSome(o) == o.some

Unwrap(o) == o.v

OptionOf(S) == {None} \cup {Some(x) : x \in S}

\* The outcome of a call that panics (unwrap on None, a failed assert!).
Panic == [panic |-> TRUE]

IsPanic(x) == x = Panic

(***************************************************************************)
(* Dense univariate polynomials over Fr (ark_poly).                        *)
(***************************************************************************)
RECURSIVE Truncate(_)
Truncate(c) ==
    IF Len(c) > 0 /\ c[Len(c)] = 0 THEN Truncate(SubSeq(c, 1, Len(c) - 1)) ELSE c

Coef(p, i) == IF i <= Len(p) THEN p[i] ELSE 0

MaxOf(a, b) == IF a >= b THEN a ELSE b

PolyZero == <<>>

PolyIsZero(p) == Len(p) = 0

PolyDegree(p) == IF Len(p) = 0 THEN 0 ELSE Len(p) - 1

PolyAdd(p, q) ==
    Truncate([i \in 1 .. MaxOf(Len(p), Len(q)) |-> FAdd(Coef(p, i), Coef(q, i))])

PolySub(p, q) ==
    Truncate([i \in 1 .. MaxOf(Len(p), Len(q)) |-> FSub(Coef(p, i), Coef(q, i))])

\* self += (f, &other)
PolyAddScaled(p, f, q) ==
    Truncate([i \in 1 .. MaxOf(Len(p), Len(q)) |->
                 FAdd(Coef(p, i), FMul(f, Coef(q, i)))])

RECURSIVE PolyEvalFrom(_, _, _)
PolyEvalFrom(p, z, i) ==
    IF i > Len(p) THEN 0 ELSE FAdd(p[i], FMul(z, PolyEvalFrom(p, z, i + 1)))

PolyEvaluate(p, z) == PolyEvalFrom(p, z, 1)

\* All polynomials of degree at most d.
PolysUpTo(d) ==
    UNION {{c \in [1 .. n -> Fr] : n = 0 \/ c[n] # 0} : n \in 0 .. (d + 1)}

Polys == PolysUpTo(MaxDeg)


(***************************************************************************)
(* crypto_primitives::Share on a group element, a scalar and a polynomial: *)
(* additive sharing.  `r` holds the num - 1 values drawn from the rng; the *)
(* last share is what is left of x.                                        *)
(***************************************************************************)
RECURSIVE SumG(_)
SumG(s) == IF Len(s) = 0 THEN 0 ELSE GAdd(s[1], SumG(Tail(s)))

RECURSIVE SumPoly(_)
SumPoly(s) == IF Len(s) = 0 THEN PolyZero ELSE PolyAdd(s[1], SumPoly(Tail(s)))

AdditiveShare_share(x, num, r) == Append(r, GSub(x, SumG(r)))

Fr_share(x, num, r) == Append(r, FSub(x, SumG(r)))

Poly_share(p, num, r) == Append(r, PolySub(p, SumPoly(r)))

(***************************************************************************)
(* kzg10::Commitment                                                       *)
(***************************************************************************)
KzgCommitment(x) == [g |-> x]

\* A variant of add_assign that computes the sum and leaves self as it was.
kzg10_Commitment_add_assign_lost(self, other) == KzgCommitment(self.g)

kzg10_Commitment_add_assign(self, other) == KzgCommitment(GAdd(self.g, other.g))

kzg10_Commitment_add(self, other) == kzg10_Commitment_add_assign(self, other)

kzg10_Commitment_zero == KzgCommitment(GZero)

kzg10_Commitment_empty == KzgCommitment(GZero)

kzg10_Commitment_has_degree_bound(self) == FALSE

kzg10_Commitment_share(self, num, r) ==
    LET s == AdditiveShare_share(self.g, num, r)
    IN  [i \in 1 .. Len(s) |-> KzgCommitment(s[i])]

(***************************************************************************)
(* kzg10::Randomness                                                       *)
(***************************************************************************)
KzgRandomness(p) == [blinding_polynomial |-> p]

kzg10_Randomness_empty == KzgRandomness(PolyZero)

kzg10_Randomness_zero == kzg10_Randomness_empty

\* A variant of is_hiding that looks at the degree of the blinding
\* polynomial.
kzg10_Randomness_is_hiding_by_degree(self) ==
    PolyDegree(self.blinding_polynomial) > 0

\* A variant of is_hiding with the negation dropped.
kzg10_Randomness_is_hiding_flipped(self) == PolyIsZero(self.blinding_polynomial)

kzg10_Randomness_is_hiding(self) == ~PolyIsZero(self.blinding_polynomial)

\* A variant of add_assign that leaves the blinding polynomial as it was.
kzg10_Randomness_add_assign_lost(self, other) ==
    KzgRandomness(self.blinding_polynomial)

kzg10_Randomness_add_assign(self, other) ==
    KzgRandomness(PolyAdd(self.blinding_polynomial, other.blinding_polynomial))

kzg10_Randomness_add_assign_scaled(self, f, other) ==
    KzgRandomness(PolyAddScaled(self.blinding_polynomial, f, other.blinding_polynomial))

kzg10_Randomness_add(self, other) == kzg10_Randomness_add_assign(self, other)

kzg10_Randomness_share(self, num, r) ==
    LET s == Poly_share(self.blinding_polynomial, num, r)
    IN  [i \in 1 .. Len(s) |-> KzgRandomness(s[i])]

\* A random number generator: the streams of field elements it will yield,
\* one stream per call, and the degree parameters of the calls made so far.
NewRng(streams) == [streams |-> streams, calls |-> <<>>]

\* P::rand(d, rng): the polynomial of the next d + 1 random coefficients.
P_rand(d, rng) ==
    [value |-> Truncate(SubSeq(rng.streams[Len(rng.calls) + 1], 1, d + 1)),
     rng |-> [rng EXCEPT !.calls = Append(@, d)]]

\* A variant of calculate_hiding_polynomial_degree without the + 1.
kzg10_Randomness_calculate_hiding_polynomial_degree_same(hiding_bound) ==
    hiding_bound

kzg10_Randomness_calculate_hiding_polynomial_degree(hiding_bound) ==
    hiding_bound + 1

\* Returns the randomness and the generator after the call.
kzg10_Randomness_rand(hiding_bound, has_degree_bound, num_vars, rng) ==
    LET hiding_poly_degree ==
            kzg10_Randomness_calculate_hiding_polynomial_degree(hiding_bound)
        p == P_rand(hiding_poly_degree, rng)
    IN  [value |-> KzgRandomness(p.value), rng |-> p.rng]

(***************************************************************************)
(* kzg10::Proof                                                            *)
(***************************************************************************)
Proof(w, random_v) == [w |-> w, random_v |-> random_v]

kzg10_Proof_add(self, other) ==
    IF IsSome(self.random_v) /\ ~IsSome(other.random_v)
    THEN Panic
    ELSE Proof(GAdd(self.w, other.w),
               IF IsSome(self.random_v)
               THEN Some(FAdd(Unwrap(self.random_v), Unwrap(other.random_v)))
               ELSE other.random_v)

kzg10_Proof_zero == Proof(GZero, None)

\* A variant of share that shares w and copies random_v into every share.
kzg10_Proof_share_unsplit(self, num, r1, r2) ==
    LET w_shares == AdditiveShare_share(self.w, num, r1)
    IN  [i \in 1 .. Len(w_shares) |-> Proof(w_shares[i], self.random_v)]

kzg10_Proof_share(self, num, r1, r2) ==
    LET w_shares == AdditiveShare_share(self.w, num, r1)
    IN  IF IsSome(self.random_v)
        THEN LET v_shares == Fr_share(Unwrap(self.random_v), num, r2)
                 n == IF Len(w_shares) <= Len(v_shares)
                      THEN Len(w_shares) ELSE Len(v_shares)
             IN  [i \in 1 .. n |-> Proof(w_shares[i], Some(v_shares[i]))]
        ELSE [i \in 1 .. Len(w_shares) |-> Proof(w_shares[i], None)]

(***************************************************************************)
(* marlin_pc::Commitment                                                   *)
(***************************************************************************)
MarlinCommitment(comm, shifted_comm) == [comm |-> comm, shifted_comm |-> shifted_comm]

marlin_Commitment_empty ==
    MarlinCommitment(kzg10_Commitment_empty, Some(kzg10_Commitment_empty))

marlin_Commitment_zero == MarlinCommitment(kzg10_Commitment_zero, None)

\* A variant of has_degree_bound that reports a bound on every commitment.
marlin_Commitment_has_degree_bound_always(self) == TRUE

marlin_Commitment_has_degree_bound(self) == IsSome(self.shifted_comm)

marlin_Commitment_add(self, other) ==
    IF IsSome(self.shifted_comm) /\ ~IsSome(other.shifted_comm)
    THEN Panic
    ELSE MarlinCommitment(
             kzg10_Commitment_add(self.comm, other.comm),
             IF IsSome(self.shifted_comm)
             THEN Some(kzg10_Commitment_add(Unwrap(self.shifted_comm),
                                            Unwrap(other.shifted_comm)))
             ELSE other.shifted_comm)

\* A variant of share that always takes the branch without shifted_comm.
marlin_Commitment_share_noshift(self, num, r1, r2) ==
    LET comm_shares == kzg10_Commitment_share(self.comm, num, r1)
    IN  [i \in 1 .. Len(comm_shares) |-> MarlinCommitment(comm_shares[i], None)]

marlin_Commitment_share(self, num, r1, r2) ==
    LET comm_shares == kzg10_Commitment_share(self.comm, num, r1)
    IN  IF IsSome(self.shifted_comm)
        THEN LET s_shares == kzg10_Commitment_share(Unwrap(self.shifted_comm), num, r2)
                 n == IF Len(comm_shares) <= Len(s_shares)
                      THEN Len(comm_shares) ELSE Len(s_shares)
             IN  [i \in 1 .. n |-> MarlinCommitment(comm_shares[i], Some(s_shares[i]))]
        ELSE [i \in 1 .. Len(comm_shares) |-> MarlinCommitment(comm_shares[i], None)]

(***************************************************************************)
(* marlin_pc::Randomness                                                   *)
(***************************************************************************)
MarlinRandomness(rand, shifted_rand) == [rand |-> rand, shifted_rand |-> shifted_rand]

marlin_Randomness_empty == MarlinRandomness(kzg10_Randomness_empty, None)

marlin_Randomness_zero == MarlinRandomness(kzg10_Randomness_zero, None)

marlin_Randomness_add_assign(self, other) ==
    MarlinRandomness(
        kzg10_Randomness_add_assign(self.rand, other.rand),
        IF IsSome(self.shifted_rand)
        THEN Some(kzg10_Randomness_add_assign(
                      Unwrap(self.shifted_rand),
                      IF IsSome(other.shifted_rand)
                      THEN Unwrap(other.shifted_rand)
                      ELSE kzg10_Randomness_empty))
        ELSE other.shifted_rand)

\* A variant of the scaled add_assign that leaves shifted_rand absent when
\* self has none.
marlin_Randomness_add_assign_scaled_noshift(self, f, other) ==
    MarlinRandomness(
        kzg10_Randomness_add_assign_scaled(self.rand, f, other.rand),
        IF IsSome(self.shifted_rand)
        THEN Some(kzg10_Randomness_add_assign_scaled(
                      Unwrap(self.shifted_rand), f,
                      IF IsSome(other.shifted_rand)
                      THEN Unwrap(other.shifted_rand)
                      ELSE kzg10_Randomness_empty))
        ELSE None)

marlin_Randomness_add_assign_scaled(self, f, other) ==
    MarlinRandomness(
        kzg10_Randomness_add_assign_scaled(self.rand, f, other.rand),
        IF IsSome(self.shifted_rand)
        THEN Some(kzg10_Randomness_add_assign_scaled(
                      Unwrap(self.shifted_rand), f,
                      IF IsSome(other.shifted_rand)
                      THEN Unwrap(other.shifted_rand)
                      ELSE kzg10_Randomness_empty))
        ELSE IF IsSome(other.shifted_rand)
             THEN Some(kzg10_Randomness_add_assign_scaled(
                           kzg10_Randomness_empty, f, Unwrap(other.shifted_rand)))
             ELSE None)

marlin_Randomness_add(self, other) == marlin_Randomness_add_assign(self, other)

marlin_Randomness_share(self, num, r1, r2) ==
    LET rand_shares == kzg10_Randomness_share(self.rand, num, r1)
    IN  IF IsSome(self.shifted_rand)
        THEN LET s_shares == kzg10_Randomness_share(Unwrap(self.shifted_rand), num, r2)
                 n == IF Len(rand_shares) <= Len(s_shares)
                      THEN Len(rand_shares) ELSE Len(s_shares)
             IN  [i \in 1 .. n |-> MarlinRandomness(rand_shares[i], Some(s_shares[i]))]
        ELSE [i \in 1 .. Len(rand_shares) |-> MarlinRandomness(rand_shares[i], None)]

\* Returns the randomness and the generator after the call; shifted_rand is
\* sampled first.
marlin_Randomness_rand(hiding_bound, has_degree_bound, num_vars, rng) ==
    LET s == kzg10_Randomness_rand(hiding_bound, FALSE, None, rng)
        rng1 == IF has_degree_bound THEN s.rng ELSE rng
        r == kzg10_Randomness_rand(hiding_bound, FALSE, None, rng1)
    IN  [value |-> MarlinRandomness(
                       r.value,
                       IF has_degree_bound THEN Some(s.value) ELSE None),
         rng |-> r.rng]

(***************************************************************************)
(* LabeledPolynomial and LabeledCommitment                                 *)
(***************************************************************************)
LabeledPolynomial_new(label, polynomial, degree_bound, hiding_bound) ==
    [label |-> label, polynomial |-> polynomial,
     degree_bound |-> degree_bound, hiding_bound |-> hiding_bound]

\* A variant of share that tags the shares with no hiding bound.
LabeledPolynomial_share_nohiding(self, num, r) ==
    LET s == Poly_share(self.polynomial, num, r)
    IN  [i \in 1 .. Len(s) |->
            LabeledPolynomial_new(self.label, s[i], self.degree_bound, None)]

LabeledPolynomial_share(self, num, r) ==
    LET s == Poly_share(self.polynomial, num, r)
    IN  [i \in 1 .. Len(s) |->
            LabeledPolynomial_new(self.label, s[i], self.degree_bound, self.hiding_bound)]

\* self + other: `other` with self's polynomial added in place.  `unique` says
\* whether other's Rc is held by no other handle (Rc::get_mut succeeds).
\* A variant of add that writes through other's Rc whether or not it is
\* shared.
LabeledPolynomial_add_through(self, other, unique) ==
    [other EXCEPT !.polynomial = PolyAdd(other.polynomial, self.polynomial)]

LabeledPolynomial_add(self, other, unique) ==
    IF ~unique
    THEN Panic
    ELSE [other EXCEPT !.polynomial = PolyAdd(other.polynomial, self.polynomial)]

LabeledCommitment_new(label, commitment, degree_bound) ==
    [label |-> label, commitment |-> commitment, degree_bound |-> degree_bound]

\* self + other: `other` with its commitment replaced by the sum.
LabeledCommitment_add(self, other) ==
    [other EXCEPT !.commitment = kzg10_Commitment_add(self.commitment, other.commitment)]

LabeledCommitment_share(self, num, r) ==
    LET s == kzg10_Commitment_share(self.commitment, num, r)
    IN  [i \in 1 .. Len(s) |->
            LabeledCommitment_new(self.label, s[i], self.degree_bound)]

(***************************************************************************)
(* LCTerm                                                                  *)
(***************************************************************************)
LCTerm_One == [tag |-> "One"]

LCTerm_PolyLabel(l) == [tag |-> "PolyLabel", label |-> l]

LCTerm_is_one(self) == self.tag = "One"

\* From<PolynomialLabel> and From<&str>
LCTerm_from(other) == LCTerm_PolyLabel(other)

\* A variant of eq in which One equals the empty label.
LCTerm_eq_empty_one(self, other) ==
    IF self.tag = "One" THEN other = "" ELSE self.label = other

\* PartialEq<B: Borrow<String>> for LCTerm
LCTerm_eq(self, other) ==
    IF self.tag = "One" THEN FALSE ELSE self.label = other

(***************************************************************************)
(* LinearCombination: a label and a list of (coefficient, term) pairs.     *)
(***************************************************************************)
LCPair(coeff, term) == [coeff |-> coeff, term |-> term]

LinearCombination_empty(label) == [label |-> label, terms |-> <<>>]

LinearCombination_new(label, terms) == [label |-> label, terms |-> terms]

LinearCombination_is_empty(self) == Len(self.terms) = 0

LinearCombination_push(self, term) ==
    [self EXCEPT !.terms = Append(@, term)]

\* self += (coeff, &other)
LinearCombination_add_assign_scaled(self, coeff, other) ==
    [self EXCEPT !.terms = @ \o
        [i \in 1 .. Len(other.terms) |->
            LCPair(FMul(coeff, other.terms[i].coeff), other.terms[i].term)]]

\* A variant of self -= (coeff, &other) without the negation.
LinearCombination_sub_assign_scaled_unsigned(self, coeff, other) ==
    [self EXCEPT !.terms = @ \o
        [i \in 1 .. Len(other.terms) |->
            LCPair(FMul(coeff, other.terms[i].coeff), other.terms[i].term)]]

\* self -= (coeff, &other)
LinearCombination_sub_assign_scaled(self, coeff, other) ==
    [self EXCEPT !.terms = @ \o
        [i \in 1 .. Len(other.terms) |->
            LCPair(FMul(FNeg(coeff), other.terms[i].coeff), other.terms[i].term)]]

\* A variant of self += &other that puts other's terms first.
LinearCombination_add_assign_in_front(self, other) ==
    [self EXCEPT !.terms = other.terms \o @]

\* self += &other
LinearCombination_add_assign(self, other) ==
    [self EXCEPT !.terms = @ \o other.terms]

\* self -= &other
LinearCombination_sub_assign(self, other) ==
    [self EXCEPT !.terms = @ \o
        [i \in 1 .. Len(other.terms) |->
            LCPair(FNeg(other.terms[i].coeff), other.terms[i].term)]]

\* self += coeff
LinearCombination_add_assign_const(self, coeff) ==
    [self EXCEPT !.terms = Append(@, LCPair(coeff, LCTerm_One))]

\* self -= coeff
LinearCombination_sub_assign_const(self, coeff) ==
    [self EXCEPT !.terms = Append(@, LCPair(FNeg(coeff), LCTerm_One))]

\* self *= coeff
LinearCombination_mul_assign(self, coeff) ==
    [self EXCEPT !.terms =
        [i \in 1 .. Len(@) |-> LCPair(FMul(@[i].coeff, coeff), @[i].term)]]

(***************************************************************************)
(* kzg10::UniversalParams and KZG10::setup.  The generators G and H are    *)
(* the scalars 1; gamma*G is the hiding generator.                         *)
(***************************************************************************)
Err(e) == [err |-> e]

IsErr(x) == x \in {Err(e) : e \in {"DegreeIsZero", "TrimmingDegreeTooLarge",
                                   "TooManyCoefficients", "HidingBoundToolarge",
                                   "UnsupportedDegreeBound",
                                   "PolynomialDegreeTooLarge"}}

KZG10_setup(max_degree, beta, gamma) ==
    IF max_degree = 0
    THEN Err("DegreeIsZero")
    ELSE [powers_of_g |-> [i \in 1 .. (max_degree + 1) |-> FPow(beta, i - 1)],
          powers_of_gamma_g |->
              [i \in 1 .. (max_degree + 2) |-> FMul(gamma, FPow(beta, i - 1))],
          h |-> 1,
          beta_h |-> beta]

\* usize subtraction.  a - b with a < b overflows: the debug build panics and
\* the release build wraps; Underflow, which is no usize, stands for either
\* outcome.
Underflow == -1

usize_sub(a, b) == IF a >= b THEN a - b ELSE Underflow

\* A variant of max_degree that subtracts 2.
UniversalParams_max_degree_minus_two(pp) == usize_sub(Len(pp.powers_of_g), 2)

\* self.powers_of_g.len() - 1
UniversalParams_max_degree(pp) == usize_sub(Len(pp.powers_of_g), 1)

(***************************************************************************)
(* marlin_pc::CommitterKey and marlin_pc::VerifierKey                      *)
(***************************************************************************)
SeqContains(s, x) == \E i \in 1 .. Len(s) : s[i] = x

\* The elements of a set of numbers in ascending order.
RECURSIVE SortedSeq(_)
SortedSeq(S) ==
    IF S = {}
    THEN <<>>
    ELSE LET m == CHOOSE x \in S : \A y \in S : x <= y
         IN  <<m>> \o SortedSeq(S \ {m})

\* MarlinKZG10::trim; `bounds` is None or Some(set of degree bounds).
MarlinKZG10_trim(pp, supported_degree, supported_hiding_bound, bounds) ==
    LET max_degree == UniversalParams_max_degree(pp)
        sorted == IF IsSome(bounds) THEN SortedSeq(Unwrap(bounds)) ELSE <<>>
        enforce == IsSome(bounds) /\ Len(sorted) > 0
        lowest == max_degree - sorted[Len(sorted)]
    IN  IF supported_degree > max_degree
        THEN Err("TrimmingDegreeTooLarge")
        ELSE IF enforce /\ sorted[Len(sorted)] > max_degree
        THEN Err("UnsupportedDegreeBound")
        ELSE [ck |->
                 [powers |-> SubSeq(pp.powers_of_g, 1, supported_degree + 1),
                  shifted_powers |->
                      IF enforce
                      THEN Some(SubSeq(pp.powers_of_g, lowest + 1, max_degree + 1))
                      ELSE None,
                  powers_of_gamma_g |->
                      SubSeq(pp.powers_of_gamma_g, 1, supported_hiding_bound + 2),
                  enforced_degree_bounds |-> IF enforce THEN Some(sorted) ELSE None,
                  max_degree |-> max_degree],
              vk |->
                 [vk |-> [g |-> pp.powers_of_g[1], gamma_g |-> pp.powers_of_gamma_g[1],
                          h |-> pp.h, beta_h |-> pp.beta_h],
                  degree_bounds_and_shift_powers |->
                      IF enforce
                      THEN Some([i \in 1 .. Len(sorted) |->
                                    <<sorted[i],
                                      pp.powers_of_g[max_degree - sorted[i] + 1]>>])
                      ELSE None,
                  max_degree |-> max_degree,
                  supported_degree |-> supported_degree]]

kzg10_Powers(powers_of_g, powers_of_gamma_g) ==
    [powers_of_g |-> powers_of_g, powers_of_gamma_g |-> powers_of_gamma_g]

kzg10_Powers_size(powers) == Len(powers.powers_of_g)

CommitterKey_powers(self) == kzg10_Powers(self.powers, self.powers_of_gamma_g)

\* A variant of shifted_powers whose range starts at degree_bound instead of
\* max_bound - degree_bound.
CommitterKey_shifted_powers_offset(self, degree_bound) ==
    IF ~IsSome(self.shifted_powers)
    THEN None
    ELSE LET shifted_powers == Unwrap(self.shifted_powers)
         IN  IF IsSome(degree_bound)
             THEN IF ~IsSome(self.enforced_degree_bounds)
                     \/ ~SeqContains(Unwrap(self.enforced_degree_bounds),
                                     Unwrap(degree_bound))
                     \/ Unwrap(degree_bound) > Len(shifted_powers)
                  THEN Panic
                  ELSE Some(kzg10_Powers(
                           SubSeq(shifted_powers, Unwrap(degree_bound) + 1,
                                  Len(shifted_powers)),
                           self.powers_of_gamma_g))
             ELSE Some(kzg10_Powers(shifted_powers, self.powers_of_gamma_g))

\* degree_bound is an Option.  Index 0 of the Rust slice is index 1 here.
\* A variant of shifted_powers without the assertion that degree_bound is
\* one of the enforced bounds.
CommitterKey_shifted_powers_unasserted(self, degree_bound) ==
    IF ~IsSome(self.shifted_powers)
    THEN None
    ELSE LET shifted_powers == Unwrap(self.shifted_powers)
         IN  IF IsSome(degree_bound)
             THEN IF ~IsSome(self.enforced_degree_bounds)
                  THEN Panic
                  ELSE LET bounds == Unwrap(self.enforced_degree_bounds)
                           b == Unwrap(degree_bound)
                           max_bound == bounds[Len(bounds)]
                           start == max_bound - b
                       IN  IF start < 0 \/ start > Len(shifted_powers)
                           THEN Panic
                           ELSE Some(kzg10_Powers(
                                    SubSeq(shifted_powers, start + 1,
                                           Len(shifted_powers)),
                                    self.powers_of_gamma_g))
             ELSE Some(kzg10_Powers(shifted_powers, self.powers_of_gamma_g))

CommitterKey_shifted_powers(self, degree_bound) ==
    IF ~IsSome(self.shifted_powers)
    THEN None
    ELSE LET shifted_powers == Unwrap(self.shifted_powers)
         IN  IF IsSome(degree_bound)
             THEN IF ~IsSome(self.enforced_degree_bounds)
                  THEN Panic
                  ELSE LET bounds == Unwrap(self.enforced_degree_bounds)
                           b == Unwrap(degree_bound)
                           max_bound == bounds[Len(bounds)]
                           start == max_bound - b
                       IN  IF ~SeqContains(bounds, b)
                           THEN Panic
                           ELSE IF start < 0 \/ start > Len(shifted_powers)
                           THEN Panic
                           ELSE Some(kzg10_Powers(
                                    SubSeq(shifted_powers, start + 1,
                                           Len(shifted_powers)),
                                    self.powers_of_gamma_g))
             ELSE Some(kzg10_Powers(shifted_powers, self.powers_of_gamma_g))

CommitterKey_max_degree(self) == self.max_degree

CommitterKey_supported_degree(self) == Len(self.powers)

VerifierKey_max_degree(self) == self.max_degree

VerifierKey_supported_degree(self) == self.supported_degree

\* <[T]>::binary_search_by(|(d, _)| d.cmp(&bound)) on the 0-based slice v:
\* Some(index) of a match, None when there is none.
RECURSIVE BinarySearchFrom(_, _, _, _)
BinarySearchFrom(v, bound, left, right) ==
    IF left >= right
    THEN None
    ELSE LET mid == left + ((right - left) \div 2)
             d == v[mid + 1][1]
         IN  IF d < bound THEN BinarySearchFrom(v, bound, mid + 1, right)
             ELSE IF d > bound THEN BinarySearchFrom(v, bound, left, mid)
             ELSE Some(mid)

binary_search_by(v, bound) == BinarySearchFrom(v, bound, 0, Len(v))

\* A variant of get_shift_power that rounds a missing bound up to the next
\* enforced bound.
VerifierKey_get_shift_power_rounded(self, bound) ==
    IF ~IsSome(self.degree_bounds_and_shift_powers)
    THEN None
    ELSE LET v == Unwrap(self.degree_bounds_and_shift_powers)
             above == {i \in 1 .. Len(v) : v[i][1] >= bound}
         IN  IF above = {}
             THEN None
             ELSE Some(v[CHOOSE i \in above : \A j \in above : i <= j][2])

VerifierKey_get_shift_power(self, bound) ==
    IF ~IsSome(self.degree_bounds_and_shift_powers)
    THEN None
    ELSE LET v == Unwrap(self.degree_bounds_and_shift_powers)
             found == binary_search_by(v, bound)
         IN  IF IsSome(found) THEN Some(v[Unwrap(found) + 1][2]) ELSE None

(***************************************************************************)
(* Canonical serialization (ark_serialize).  A byte string is a sequence   *)
(* of numbers in 0..255.  A usize is written as a little-endian u64, a     *)
(* bool as one byte, a Vec as its length followed by its elements, an      *)
(* Option as a bool followed by the value when present.  A group element   *)
(* is written as its x coordinate when compressed and as x, y when         *)
(* uncompressed; x is the scalar that stands for the element and YOf(x)    *)
(* stands for the matching y.  A reader returns the value and the unread   *)
(* rest of the bytes, or a SerializationError.                             *)
(***************************************************************************)
U64Bytes == 8

IsSerError(x) == "err" \in DOMAIN x

Read(val, rest) == [val |-> val, rest |-> rest]

Drop(b, n) == SubSeq(b, n + 1, Len(b))

RECURSIVE Pow256(_)
Pow256(n) == IF n = 0 THEN 1 ELSE 256 * Pow256(n - 1)

RECURSIVE LittleEndianBytes(_, _)
LittleEndianBytes(n, k) ==
    IF k = 0 THEN <<>> ELSE <<n % 256>> \o LittleEndianBytes(n \div 256, k - 1)

usize_serialize(n) == LittleEndianBytes(n, U64Bytes)

\* The value of a little-endian u64.  The three low bytes are read exactly;
\* a value with a higher non-zero byte is read as 2^24, which is larger than
\* every length and degree of the model.
RECURSIVE LittleEndian(_, _)
LittleEndian(b, i) ==
    IF i > 3
    THEN IF \E j \in 4 .. U64Bytes : b[j] # 0 THEN Pow256(3) ELSE 0
    ELSE b[i] * Pow256(i - 1) + LittleEndian(b, i + 1)

usize_deserialize(b) ==
    IF Len(b) < U64Bytes
    THEN Err("IoError")
    ELSE Read(LittleEndian(b, 1), Drop(b, U64Bytes))

bool_serialize(x) == IF x THEN <<1>> ELSE <<0>>

bool_deserialize(b) ==
    IF Len(b) < 1
    THEN Err("IoError")
    ELSE IF b[1] \notin {0, 1}
    THEN Err("InvalidData")
    ELSE Read(b[1] = 1, Drop(b, 1))

YOf(x) == (Q - x) % Q

\* mode is "compressed", "uncompressed" or "unchecked"; serialize_unchecked
\* writes the uncompressed form.
G1_serialize(a, mode) ==
    IF mode = "compressed" THEN <<a>> ELSE <<a, YOf(a)>>

\* deserialize and deserialize_uncompressed validate the point,
\* deserialize_unchecked reads the uncompressed form without validation.
G1_deserialize(b, mode) ==
    IF mode = "compressed"
    THEN IF Len(b) < 1
         THEN Err("IoError")
         ELSE IF b[1] \notin G1
         THEN Err("InvalidData")
         ELSE Read(b[1], Drop(b, 1))
    ELSE IF Len(b) < 2
         THEN Err("IoError")
         ELSE IF mode = "uncompressed" /\ (b[1] \notin G1 \/ b[2] # YOf(b[1]))
         THEN Err("InvalidData")
         ELSE Read(b[1], Drop(b, 2))

RECURSIVE G1s_serialize(_, _, _)
G1s_serialize(v, i, mode) ==
    IF i > Len(v)
    THEN <<>>
    ELSE G1_serialize(v[i], mode) \o G1s_serialize(v, i + 1, mode)

VecG1_serialize(v, mode) == usize_serialize(Len(v)) \o G1s_serialize(v, 1, mode)

RECURSIVE G1s_deserialize(_, _, _, _)
G1s_deserialize(b, n, mode, acc) ==
    IF n = 0
    THEN Read(acc, b)
    ELSE LET e == G1_deserialize(b, mode)
         IN  IF IsSerError(e)
             THEN e
             ELSE G1s_deserialize(e.rest, n - 1, mode, Append(acc, e.val))

VecG1_deserialize(b, mode) ==
    LET n == usize_deserialize(b)
    IN  IF IsSerError(n) THEN n ELSE G1s_deserialize(n.rest, n.val, mode, <<>>)

RECURSIVE usizes_serialize(_, _)
usizes_serialize(v, i) ==
    IF i > Len(v)
    THEN <<>>
    ELSE usize_serialize(v[i]) \o usizes_serialize(v, i + 1)

VecUsize_serialize(v) == usize_serialize(Len(v)) \o usizes_serialize(v, 1)

RECURSIVE usizes_deserialize(_, _, _)
usizes_deserialize(b, n, acc) ==
    IF n = 0
    THEN Read(acc, b)
    ELSE LET e == usize_deserialize(b)
         IN  IF IsSerError(e)
             THEN e
             ELSE usizes_deserialize(e.rest, n - 1, Append(acc, e.val))

VecUsize_deserialize(b) ==
    LET n == usize_deserialize(b)
    IN  IF IsSerError(n) THEN n ELSE usizes_deserialize(n.rest, n.val, <<>>)

OptionVecG1_serialize(o, mode) ==
    bool_serialize(IsSome(o))
        \o (IF IsSome(o) THEN VecG1_serialize(Unwrap(o), mode) ELSE <<>>)

OptionVecG1_deserialize(b, mode) ==
    LET t == bool_deserialize(b)
    IN  IF IsSerError(t)
        THEN t
        ELSE IF ~t.val
        THEN Read(None, t.rest)
        ELSE LET v == VecG1_deserialize(t.rest, mode)
             IN  IF IsSerError(v) THEN v ELSE Read(Some(v.val), v.rest)

OptionVecUsize_serialize(o) ==
    bool_serialize(IsSome(o))
        \o (IF IsSome(o) THEN VecUsize_serialize(Unwrap(o)) ELSE <<>>)

OptionVecUsize_deserialize(b) ==
    LET t == bool_deserialize(b)
    IN  IF IsSerError(t)
        THEN t
        ELSE IF ~t.val
        THEN Read(None, t.rest)
        ELSE LET v == VecUsize_deserialize(t.rest)
             IN  IF IsSerError(v) THEN v ELSE Read(Some(v.val), v.rest)

(***************************************************************************)
(* CanonicalSerialize and CanonicalDeserialize for marlin_pc::CommitterKey *)
(***************************************************************************)
\* A variant of serialize that writes `powers` in the mode of the call.
CommitterKey_serialize_by_mode(self, mode) ==
    LET m == IF mode = "compressed" THEN "compressed" ELSE "uncompressed"
    IN  VecG1_serialize(self.powers, m)
            \o OptionVecG1_serialize(self.shifted_powers, m)
            \o VecG1_serialize(self.powers_of_gamma_g, "uncompressed")
            \o OptionVecUsize_serialize(self.enforced_degree_bounds)
            \o usize_serialize(self.max_degree)

\* serialize (mode "compressed") and serialize_uncompressed; the trait's
\* default serialize_unchecked is serialize_uncompressed.  The writer is a
\* growable buffer, so no write fails.
CommitterKey_serialize(self, mode) ==
    LET m == IF mode = "compressed" THEN "compressed" ELSE "uncompressed"
    IN  VecG1_serialize(self.powers, "uncompressed")
            \o OptionVecG1_serialize(self.shifted_powers, m)
            \o VecG1_serialize(self.powers_of_gamma_g, "uncompressed")
            \o OptionVecUsize_serialize(self.enforced_degree_bounds)
            \o usize_serialize(self.max_degree)

\* A write of `bytes` to a writer with `room` bytes left: the writer fails
\* when the bytes do not fit.
WriteField(bytes, room) ==
    IF Len(bytes) > room
    THEN Err("IoError")
    ELSE [ok |-> TRUE, room |-> room - Len(bytes)]

\* serialize (mode "compressed") and serialize_uncompressed to a writer that
\* accepts `cap` bytes.  serialize unwraps the result of writing
\* shifted_powers; every other write is followed by `?`.
CommitterKey_serialize_to(self, mode, cap) ==
    LET m == IF mode = "compressed" THEN "compressed" ELSE "uncompressed"
        powers == WriteField(VecG1_serialize(self.powers, "uncompressed"), cap)
    IN  IF IsSerError(powers) THEN powers ELSE
        LET shifted_powers ==
                WriteField(OptionVecG1_serialize(self.shifted_powers, m), powers.room)
        IN  IF IsSerError(shifted_powers)
            THEN (IF mode = "compressed" THEN Panic ELSE shifted_powers) ELSE
        LET powers_of_gamma_g ==
                WriteField(VecG1_serialize(self.powers_of_gamma_g, "uncompressed"),
                           shifted_powers.room)
        IN  IF IsSerError(powers_of_gamma_g) THEN powers_of_gamma_g ELSE
        LET enforced_degree_bounds ==
                WriteField(OptionVecUsize_serialize(self.enforced_degree_bounds),
                           powers_of_gamma_g.room)
        IN  IF IsSerError(enforced_degree_bounds) THEN enforced_degree_bounds ELSE
        WriteField(usize_serialize(self.max_degree), enforced_degree_bounds.room)

\* serialized_size (mode "compressed") and uncompressed_size of the field
\* types: the number of bytes their serialize forms write.
G1_size(mode) == IF mode = "compressed" THEN 1 ELSE 2

VecG1_size(v, mode) == U64Bytes + Len(v) * G1_size(mode)

OptionVecG1_size(o, mode) ==
    1 + (IF IsSome(o) THEN VecG1_size(Unwrap(o), mode) ELSE 0)

OptionVecUsize_size(o) ==
    1 + (IF IsSome(o) THEN U64Bytes + Len(Unwrap(o)) * U64Bytes ELSE 0)

CommitterKey_serialized_size(self) ==
    VecG1_size(self.powers, "uncompressed")
        + OptionVecG1_size(self.shifted_powers, "uncompressed")
        + VecG1_size(self.powers_of_gamma_g, "uncompressed")
        + OptionVecUsize_size(self.enforced_degree_bounds)
        + U64Bytes

CommitterKey_uncompressed_size(self) ==
    VecG1_size(self.powers, "uncompressed")
        + OptionVecG1_size(self.shifted_powers, "uncompressed")
        + VecG1_size(self.powers_of_gamma_g, "uncompressed")
        + OptionVecUsize_size(self.enforced_degree_bounds)
        + U64Bytes

\* deserialize (mode "compressed"), deserialize_uncompressed and
\* deserialize_unchecked.
CommitterKey_deserialize(b, mode) ==
    LET vm == IF mode = "compressed" THEN "unchecked" ELSE mode
        powers == VecG1_deserialize(b, vm)
    IN  IF IsSerError(powers) THEN powers ELSE
        LET shifted_powers == OptionVecG1_deserialize(powers.rest, mode)
        IN  IF IsSerError(shifted_powers) THEN shifted_powers ELSE
        LET powers_of_gamma_g == VecG1_deserialize(shifted_powers.rest, vm)
        IN  IF IsSerError(powers_of_gamma_g) THEN powers_of_gamma_g ELSE
        LET enforced_degree_bounds ==
                OptionVecUsize_deserialize(powers_of_gamma_g.rest)
        IN  IF IsSerError(enforced_degree_bounds) THEN enforced_degree_bounds ELSE
        LET max_degree == usize_deserialize(enforced_degree_bounds.rest)
        IN  IF IsSerError(max_degree) THEN max_degree ELSE
        Read([powers |-> powers.val,
              shifted_powers |-> shifted_powers.val,
              powers_of_gamma_g |-> powers_of_gamma_g.val,
              enforced_degree_bounds |-> enforced_degree_bounds.val,
              max_degree |-> max_degree.val],
             max_degree.rest)

(***************************************************************************)
(* ToBytes for kzg10::Proof, kzg10::Commitment and marlin_pc::Commitment.  *)
(* A group element is written in affine form, a field element as its       *)
(* value, a bool as one byte.                                              *)
(***************************************************************************)
G1_write(a) == <<a, YOf(a)>>

Fr_write(x) == <<x>>

bool_write(x) == IF x THEN <<1>> ELSE <<0>>

kzg10_Commitment_write(self) == G1_write(self.g)

kzg10_Proof_write(self) ==
    G1_write(self.w) \o Fr_write(IF IsSome(self.random_v) THEN Unwrap(self.random_v) ELSE 0)

marlin_Commitment_write(self) ==
    LET shifted_exists == IsSome(self.shifted_comm)
    IN  kzg10_Commitment_write(self.comm)
            \o bool_write(shifted_exists)
            \o kzg10_Commitment_write(IF shifted_exists
                                       THEN Unwrap(self.shifted_comm)
                                       ELSE kzg10_Commitment_empty)

(***************************************************************************)
(* KZG10::commit, KZG10::open and KZG10::check.                            *)
(***************************************************************************)
\* VariableBaseMSM: the sum of coeffs[i] * bases[i].
RECURSIVE MSMFrom(_, _, _)
MSMFrom(bases, coeffs, i) ==
    IF i > Len(coeffs)
    THEN GZero
    ELSE GAdd(GMul(bases[i], coeffs[i]), MSMFrom(bases, coeffs, i + 1))

MSM(bases, coeffs) == MSMFrom(bases, coeffs, 1)

\* The quotient of p by the linear factor (X - z); the remainder is p(z).
RECURSIVE QuotCoef(_, _, _)
QuotCoef(p, z, i) ==
    IF i >= Len(p) - 1
    THEN p[Len(p)]
    ELSE FAdd(p[i + 1], FMul(z, QuotCoef(p, z, i + 1)))

PolyDivLinear(p, z) ==
    IF Len(p) <= 1 THEN PolyZero ELSE [i \in 1 .. (Len(p) - 1) |-> QuotCoef(p, z, i)]

\* `r` is the blinding polynomial the rng yields when a hiding bound is given.
KZG10_commit(powers, polynomial, hiding_bound, r) ==
    IF PolyDegree(polynomial) + 1 > kzg10_Powers_size(powers)
    THEN Err("TooManyCoefficients")
    ELSE IF IsSome(hiding_bound) /\ PolyDegree(r) >= Len(powers.powers_of_gamma_g)
    THEN Err("HidingBoundToolarge")
    ELSE LET randomness == IF IsSome(hiding_bound)
                           THEN KzgRandomness(r)
                           ELSE kzg10_Randomness_empty
             commitment == MSM(powers.powers_of_g, polynomial)
             random_commitment ==
                 MSM(powers.powers_of_gamma_g, randomness.blinding_polynomial)
         IN  [comm |-> KzgCommitment(GAdd(commitment, random_commitment)),
              rand |-> randomness]

\* MarlinKZG10::commit for one labeled polynomial without a degree bound:
\* the degree check against the committer key, then KZG10::commit.
MarlinKZG10_commit(ck_, labeled, r) ==
    IF PolyDegree(labeled.polynomial) > CommitterKey_supported_degree(ck_)
    THEN Err("PolynomialDegreeTooLarge")
    ELSE KZG10_commit(CommitterKey_powers(ck_), labeled.polynomial,
                      labeled.hiding_bound, r)

KZG10_open(powers, polynomial, point, rand) ==
    IF PolyDegree(polynomial) + 1 > kzg10_Powers_size(powers)
    THEN Err("TooManyCoefficients")
    ELSE LET witness == PolyDivLinear(polynomial, point)
             hiding == kzg10_Randomness_is_hiding(rand)
             w == MSM(powers.powers_of_g, witness)
         IN  IF hiding
             THEN Proof(GAdd(w, MSM(powers.powers_of_gamma_g,
                                    PolyDivLinear(rand.blinding_polynomial, point))),
                        Some(PolyEvaluate(rand.blinding_polynomial, point)))
             ELSE Proof(w, None)

\* e(C - value*G - random_v*gamma_G, H) = e(proof.w, beta*H - point*H)
KZG10_check(kvk, comm, point, value, proof) ==
    LET inner0 == GSub(comm.g, GMul(kvk.g, value))
        inner == IF IsSome(proof.random_v)
                 THEN GSub(inner0, GMul(kvk.gamma_g, Unwrap(proof.random_v)))
                 ELSE inner0
        lhs == Pairing(inner, kvk.h)
        rhs == Pairing(proof.w, GSub(kvk.beta_h, GMul(kvk.h, point)))
    IN  lhs = rhs

(***************************************************************************)
(* The secret-sharing extension: a value is shared, and the shares are     *)
(* summed again with the type's own Add.                                   *)
(***************************************************************************)
VARIABLES kind, orig, num, shares, sum, pc

ShareVars == <<kind, orig, num, shares, sum, pc>>

\* An addition of two values: the operand types, the operands, the strong
\* count of the right operand's Rc, and the result.
VARIABLES op, lhs, rhs, rc, res

AddVars == <<op, lhs, rhs, rc, res>>

\* Keys: the universal parameters, the trimmed committer and verifier keys,
\* the last query on them and its answer.
VARIABLES pp, ck, vk, query, answer, kpc

KeyVars == <<pp, ck, vk, query, answer, kpc>>

\* Commit, open and check under a trimmed key (pp, ck, vk above): the
\* labeled polynomial, the result of commit, a second committed polynomial,
\* the sum of the two, the opening, the verifier's verdict, and the
\* distributed commitment from shares.
VARIABLES poly, committed, second, added, opening, verdict, dist, cpc

CommitVars == <<poly, committed, second, added, opening, verdict, dist, cpc>>

\* Serialization of a committer key: the key, the mode of the call, the
\* bytes in the reader (the bytes written followed by unrelated bytes), the
\* number of bytes written, and the result of deserialization.
VARIABLES skey, smode, wire, written, decoded, spc

SerVars == <<skey, smode, wire, written, decoded, spc>>

\* Commitments built from empty(), zero(), addition and share(): the type
\* of the commitments, two commitments in hand, and the outcome of the
\* last operation.
VARIABLES mckind, mca, mcb, mcpc

McVars == <<mckind, mca, mcb, mcpc>>

\* Reference-counted polynomials: the Rc allocations (polynomial and strong
\* count), the labeled polynomials in scope (each holds an Rc), and the
\* operands and outcome of the last add.
VARIABLES heap, handles, lastop

RcVars == <<heap, handles, lastop>>

\* Sampled randomness: the type, the values sampled or built so far, the
\* arguments of the last rand with the calls it made on the generator, and
\* the sum of the two values.
VARIABLES rkind, rvals, rlast, rsum

RandVars == <<rkind, rvals, rlast, rsum>>

\* A term of a linear combination compared with a bare label: the term, the
\* label, and the result of the comparison.
VARIABLES lcterm, lcother, lceq

LcVars == <<lcterm, lcother, lceq>>

\* A LinearCombination under its operators: the term list it was built
\* with, the combination before the last operator, the last operator and
\* its operands, and the combination now.
VARIABLES linfirst, linprev, linop, lin

LinVars == <<linfirst, linprev, linop, lin>>

\* A committer key serialized to a writer of limited capacity: the key, the
\* form written, the writer's capacity and the result of the call.
VARIABLES wkey, wmode, wcap, wres

WrVars == <<wkey, wmode, wcap, wres>>

\* Two values of one type and the bytes ToBytes writes for each.
VARIABLES tbkind, tba, tbb, tbbytesa, tbbytesb

TbVars == <<tbkind, tba, tbb, tbbytesa, tbbytesb>>

vars == <<ShareVars, AddVars, KeyVars, CommitVars, SerVars, McVars, RcVars, RandVars, LcVars, LinVars, WrVars, TbVars>>

CommitIdle ==
    /\ poly = None /\ committed = None /\ second = None /\ added = None
    /\ opening = None /\ verdict = None /\ dist = None /\ cpc = "idle"

KeyIdle ==
    /\ pp = None /\ ck = None /\ vk = None
    /\ query = None /\ answer = None /\ kpc = "idle"

ShareIdle ==
    /\ kind = "idle" /\ orig = None /\ num = 0
    /\ shares = <<>> /\ sum = None /\ pc = "idle"

AddIdle ==
    /\ op = "idle" /\ lhs = None /\ rhs = None /\ rc = 0 /\ res = None

SerIdle ==
    /\ skey = None /\ smode = "idle" /\ wire = <<>> /\ written = 0
    /\ decoded = None /\ spc = "idle"

McIdle == mckind = "idle" /\ mca = None /\ mcb = None /\ mcpc = "idle"

RcIdle == heap = <<>> /\ handles = <<>> /\ lastop = None

RandIdle == rkind = "idle" /\ rvals = <<>> /\ rlast = None /\ rsum = None

LcIdle == lcterm = None /\ lcother = None /\ lceq = None

LinIdle == linfirst = None /\ linprev = None /\ linop = None /\ lin = None

WrIdle == wkey = None /\ wmode = None /\ wcap = None /\ wres = None

TbIdle ==
    tbkind = None /\ tba = None /\ tbb = None /\ tbbytesa = None /\ tbbytesb = None

Labels == {"a", "b"}

DegreeBounds == OptionOf(1 .. MaxDeg)

HidingBounds == OptionOf(1 .. MaxBlindDeg)

\* The polynomials the rng draws as shares, and the polynomials shared.
SharePolys == {<<>>, <<1>>, <<0, 1>>, <<Q - 1, 1>>}

KzgCommitments == {KzgCommitment(x) : x \in G1}

KzgRandomnesses == {KzgRandomness(p) : p \in SharePolys}

Proofs == {Proof(w, v) : w \in G1, v \in OptionOf(Fr)}

MarlinCommitments ==
    {MarlinCommitment(c, s) : c \in KzgCommitments, s \in OptionOf(KzgCommitments)}

MarlinRandomnesses ==
    {MarlinRandomness(r, s) : r \in KzgRandomnesses, s \in OptionOf(KzgRandomnesses)}

LabeledPolynomials ==
    {LabeledPolynomial_new(l, p, d, h) :
        l \in Labels, p \in SharePolys, d \in DegreeBounds, h \in HidingBounds}

LabeledCommitments ==
    {LabeledCommitment_new(l, c, d) :
        l \in Labels, c \in KzgCommitments, d \in DegreeBounds}

SummedKinds ==
    {"kzg10_Commitment", "kzg10_Randomness", "kzg10_Proof",
     "marlin_Commitment", "marlin_Randomness"}

ValuesOf(k) ==
    CASE k = "kzg10_Commitment" -> KzgCommitments
      [] k = "kzg10_Randomness" -> KzgRandomnesses
      [] k = "kzg10_Proof" -> Proofs
      [] k = "marlin_Commitment" -> MarlinCommitments
      [] k = "marlin_Randomness" -> MarlinRandomnesses
      [] k = "LabeledPolynomial" -> LabeledPolynomials
      [] k = "LabeledCommitment" -> LabeledCommitments

\* The type's Zero::zero().
ZeroOf(k) ==
    CASE k = "kzg10_Commitment" -> kzg10_Commitment_zero
      [] k = "kzg10_Randomness" -> kzg10_Randomness_zero
      [] k = "kzg10_Proof" -> kzg10_Proof_zero
      [] k = "marlin_Commitment" -> marlin_Commitment_zero
      [] k = "marlin_Randomness" -> marlin_Randomness_zero

\* The type's Add::add(self, other).
AddOf(k, a, b) ==
    CASE k = "kzg10_Commitment" -> kzg10_Commitment_add(a, b)
      [] k = "kzg10_Randomness" -> kzg10_Randomness_add(a, b)
      [] k = "kzg10_Proof" -> kzg10_Proof_add(a, b)
      [] k = "marlin_Commitment" -> marlin_Commitment_add(a, b)
      [] k = "marlin_Randomness" -> marlin_Randomness_add(a, b)

\* shares.fold(acc, |a, b| a + b); a panic of an addition ends the fold.
RECURSIVE FoldAdd(_, _, _)
FoldAdd(k, acc, s) ==
    IF IsPanic(acc) \/ Len(s) = 0
    THEN acc
    ELSE FoldAdd(k, AddOf(k, acc, s[1]), Tail(s))

Nums == 2 .. MaxShares

GDraws(n) == [1 .. (n - 1) -> G1]

PolyDraws(n) == [1 .. (n - 1) -> SharePolys]

ShareInit ==
    /\ kind \in SummedKinds \cup {"LabeledPolynomial", "LabeledCommitment"}
    /\ orig \in ValuesOf(kind)
    /\ num = 0
    /\ shares = <<>>
    /\ sum = None
    /\ pc = "new"
    /\ AddIdle /\ KeyIdle /\ CommitIdle /\ SerIdle /\ McIdle /\ RcIdle /\ RandIdle /\ LcIdle /\ LinIdle /\ WrIdle /\ TbIdle

ShareFrame == UNCHANGED <<AddVars, KeyVars, CommitVars, SerVars, McVars, RcVars, RandVars, LcVars, LinVars, WrVars, TbVars>>

Shared(n, s) ==
    /\ num' = n
    /\ shares' = s
    /\ pc' = "shared"
    /\ UNCHANGED <<kind, orig, sum>>
    /\ ShareFrame

ShareKzgCommitment ==
    /\ pc = "new" /\ kind = "kzg10_Commitment"
    /\ \E n \in Nums : \E r \in GDraws(n) :
           Shared(n, kzg10_Commitment_share(orig, n, r))

ShareKzgRandomness ==
    /\ pc = "new" /\ kind = "kzg10_Randomness"
    /\ \E n \in Nums : \E r \in PolyDraws(n) :
           Shared(n, kzg10_Randomness_share(orig, n, r))

ShareProof ==
    /\ pc = "new" /\ kind = "kzg10_Proof"
    /\ \E n \in Nums : \E r1 \in GDraws(n), r2 \in GDraws(n) :
           Shared(n, kzg10_Proof_share(orig, n, r1, r2))

ShareMarlinCommitment ==
    /\ pc = "new" /\ kind = "marlin_Commitment"
    /\ \E n \in Nums : \E r1 \in GDraws(n), r2 \in GDraws(n) :
           Shared(n, marlin_Commitment_share(orig, n, r1, r2))

ShareMarlinRandomness ==
    /\ pc = "new" /\ kind = "marlin_Randomness"
    /\ \E n \in Nums : \E r1 \in PolyDraws(n), r2 \in PolyDraws(n) :
           Shared(n, marlin_Randomness_share(orig, n, r1, r2))

ShareLabeledPolynomial ==
    /\ pc = "new" /\ kind = "LabeledPolynomial"
    /\ \E n \in Nums : \E r \in PolyDraws(n) :
           Shared(n, LabeledPolynomial_share(orig, n, r))

ShareLabeledCommitment ==
    /\ pc = "new" /\ kind = "LabeledCommitment"
    /\ \E n \in Nums : \E r \in GDraws(n) :
           Shared(n, LabeledCommitment_share(orig, n, r))

\* shares.into_iter().fold(T::zero(), Add::add)
ReconstructFromZero ==
    /\ pc = "shared" /\ kind \in SummedKinds
    /\ sum' = Some(FoldAdd(kind, ZeroOf(kind), shares))
    /\ pc' = "summed"
    /\ UNCHANGED <<kind, orig, num, shares>>
    /\ ShareFrame

\* shares.into_iter().reduce(Add::add)
ReconstructReduce ==
    /\ pc = "shared" /\ kind \in SummedKinds /\ Len(shares) > 0
    /\ sum' = Some(FoldAdd(kind, shares[1], Tail(shares)))
    /\ pc' = "summed"
    /\ UNCHANGED <<kind, orig, num, shares>>
    /\ ShareFrame

ShareNext ==
    \/ ShareKzgCommitment
    \/ ShareKzgRandomness
    \/ ShareProof
    \/ ShareMarlinCommitment
    \/ ShareMarlinRandomness
    \/ ShareLabeledPolynomial
    \/ ShareLabeledCommitment
    \/ ReconstructFromZero
    \/ ReconstructReduce

SpecShare == ShareInit /\ [][ShareNext]_vars

(***************************************************************************)
(* Additions of labeled values.                                            *)
(***************************************************************************)
AddInit ==
    /\ op \in {"LabeledCommitment", "LabeledPolynomial", "kzg10_Proof",
               "marlin_Commitment", "marlin_Randomness"}
    /\ lhs \in ValuesOf(op)
    /\ rhs \in ValuesOf(op)
    /\ rc \in IF op = "LabeledPolynomial" THEN {1, 2} ELSE {0}
    /\ res = None
    /\ ShareIdle /\ KeyIdle /\ CommitIdle /\ SerIdle /\ McIdle /\ RcIdle /\ RandIdle /\ LcIdle /\ LinIdle /\ WrIdle /\ TbIdle

AddFrame == UNCHANGED <<ShareVars, KeyVars, CommitVars, SerVars, McVars, RcVars, RandVars, LcVars, LinVars, WrVars, TbVars>>

AddLabeledCommitment ==
    /\ op = "LabeledCommitment" /\ res = None
    /\ res' = Some(LabeledCommitment_add(lhs, rhs))
    /\ UNCHANGED <<op, lhs, rhs, rc>>
    /\ AddFrame

AddLabeledPolynomial ==
    /\ op = "LabeledPolynomial" /\ res = None
    /\ res' = Some(LabeledPolynomial_add(lhs, rhs, rc = 1))
    /\ UNCHANGED <<op, lhs, rhs, rc>>
    /\ AddFrame

AddProof ==
    /\ op = "kzg10_Proof" /\ res = None
    /\ res' = Some(kzg10_Proof_add(lhs, rhs))
    /\ UNCHANGED <<op, lhs, rhs, rc>>
    /\ AddFrame

AddMarlinCommitment ==
    /\ op = "marlin_Commitment" /\ res = None
    /\ res' = Some(marlin_Commitment_add(lhs, rhs))
    /\ UNCHANGED <<op, lhs, rhs, rc>>
    /\ AddFrame

\* lhs + &rhs; the result is recorded with no factor.
AddMarlinRandomness ==
    /\ op = "marlin_Randomness" /\ res = None
    /\ res' = Some([factor |-> None, value |-> marlin_Randomness_add(lhs, rhs)])
    /\ UNCHANGED <<op, lhs, rhs, rc>>
    /\ AddFrame

\* lhs + (f, &rhs); the result is recorded with the factor f.
AddMarlinRandomnessScaled ==
    /\ op = "marlin_Randomness" /\ res = None
    /\ \E f \in Fr :
           res' = Some([factor |-> Some(f),
                        value |-> marlin_Randomness_add_assign_scaled(lhs, f, rhs)])
    /\ UNCHANGED <<op, lhs, rhs, rc>>
    /\ AddFrame

AddNext ==
    \/ AddLabeledCommitment
    \/ AddLabeledPolynomial
    \/ AddProof
    \/ AddMarlinCommitment
    \/ AddMarlinRandomness
    \/ AddMarlinRandomnessScaled

SpecAdd == AddInit /\ [][AddNext]_vars

(***************************************************************************)
(* Keys: setup, trim, and the queries on the trimmed keys.                 *)
(***************************************************************************)
Betas == 1 .. (Q - 1)

Gammas == {1, 2}

KeyInit ==
    /\ pp = None /\ ck = None /\ vk = None
    /\ query = None /\ answer = None /\ kpc = "start"
    /\ ShareIdle /\ AddIdle /\ CommitIdle /\ SerIdle /\ McIdle /\ RcIdle /\ RandIdle /\ LcIdle /\ LinIdle /\ WrIdle /\ TbIdle

KeyFrame == UNCHANGED <<ShareVars, AddVars, CommitVars, SerVars, McVars, RcVars, RandVars, LcVars, LinVars, WrVars, TbVars>>

Setup ==
    /\ kpc = "start"
    /\ \E max_degree \in 0 .. MaxDegree, beta \in Betas, gamma \in Gammas :
           LET r == KZG10_setup(max_degree, beta, gamma)
           IN  /\ pp' = [params |-> r, beta |-> beta, gamma |-> gamma,
                       max_degree |-> max_degree]
               /\ kpc' = IF IsErr(r) THEN "setup_failed" ELSE "setup"
    /\ UNCHANGED <<ck, vk, query, answer>>
    /\ KeyFrame

Trim ==
    /\ kpc = "setup"
    /\ \E supported_degree \in 1 .. (UniversalParams_max_degree(pp.params) + 1),
          bounds \in OptionOf(SUBSET (1 .. (UniversalParams_max_degree(pp.params) - 1))) :
           LET r == MarlinKZG10_trim(pp.params, supported_degree, 0, bounds)
           IN  IF IsErr(r)
               THEN /\ kpc' = "trim_failed"
                    /\ answer' = r
                    /\ UNCHANGED <<ck, vk>>
               ELSE /\ kpc' = "trimmed"
                    /\ ck' = r.ck
                    /\ vk' = r.vk
                    /\ UNCHANGED answer
    /\ UNCHANGED <<pp, query>>
    /\ KeyFrame

Answered(q, a) ==
    /\ query' = q
    /\ answer' = a
    /\ kpc' = "answered"
    /\ UNCHANGED <<pp, ck, vk>>
    /\ KeyFrame

SupportedDegree ==
    /\ kpc = "trimmed"
    /\ Answered([fn |-> "supported_degree"], CommitterKey_supported_degree(ck))

MaxDegreeOfParams ==
    /\ kpc = "trimmed"
    /\ Answered([fn |-> "max_degree"], UniversalParams_max_degree(pp.params))

ShiftedPowers ==
    /\ kpc = "trimmed"
    /\ \E b \in OptionOf(0 .. MaxDegree) :
           Answered([fn |-> "shifted_powers", arg |-> b],
                    CommitterKey_shifted_powers(ck, b))

GetShiftPower ==
    /\ kpc = "trimmed"
    /\ \E bound \in 0 .. (MaxDegree + 1) :
           Answered([fn |-> "get_shift_power", arg |-> bound],
                    VerifierKey_get_shift_power(vk, bound))

KeyNext ==
    \/ Setup
    \/ Trim
    \/ SupportedDegree
    \/ MaxDegreeOfParams
    \/ ShiftedPowers
    \/ GetShiftPower

SpecKey == KeyInit /\ [][KeyNext]_vars

(***************************************************************************)
(* Commit, open and check; commitments of shares.                          *)
(***************************************************************************)
\* The polynomials committed to: degree at most MaxDeg, coefficients 0, 1, -1.
CommitPolys == {c \in Polys : \A i \in 1 .. Len(c) : c[i] \in {0, 1, Q - 1}}

CommitInit ==
    /\ \E beta \in Betas, gamma \in Gammas, supported_degree \in 1 .. MaxDeg :
           LET params == KZG10_setup(MaxDeg, beta, gamma)
               t == MarlinKZG10_trim(params, supported_degree, 0, None)
           IN  /\ pp = [params |-> params, beta |-> beta, gamma |-> gamma,
                      max_degree |-> MaxDeg]
               /\ ck = t.ck
               /\ vk = t.vk
    /\ query = None /\ answer = None /\ kpc = "trimmed"
    /\ poly \in {LabeledPolynomial_new("a", c, None, h) :
                    c \in CommitPolys, h \in OptionOf({0})}
    /\ committed = None /\ second = None /\ added = None
    /\ opening = None /\ verdict = None /\ dist = None /\ cpc = "start"
    /\ ShareIdle /\ AddIdle /\ SerIdle /\ McIdle /\ RcIdle /\ RandIdle /\ LcIdle /\ LinIdle /\ WrIdle /\ TbIdle

CommitFrame == UNCHANGED <<ShareVars, AddVars, KeyVars, SerVars, McVars, RcVars, RandVars, LcVars, LinVars, WrVars, TbVars>>

\* The blinding polynomials the rng can yield for a hiding bound.
BlindDraws(hiding_bound) == IF IsSome(hiding_bound) THEN SharePolys ELSE {PolyZero}

Commit ==
    /\ cpc = "start"
    /\ \E r \in BlindDraws(poly.hiding_bound) :
           LET c == MarlinKZG10_commit(ck, poly, r)
           IN  /\ committed' = c
               /\ cpc' = IF IsErr(c) THEN "commit_failed" ELSE "committed"
    /\ UNCHANGED <<poly, second, added, opening, verdict, dist>>
    /\ CommitFrame

CommitSecond ==
    /\ cpc = "committed"
    /\ \E q \in SharePolys, r \in BlindDraws(poly.hiding_bound) :
           LET c == KZG10_commit(CommitterKey_powers(ck), q, poly.hiding_bound, r)
           IN  /\ ~IsErr(c)
               /\ second' = [poly |-> LabeledPolynomial_new("b", q, None,
                                                            poly.hiding_bound),
                             comm |-> c.comm, rand |-> c.rand]
    /\ cpc' = "second"
    /\ UNCHANGED <<poly, committed, added, opening, verdict, dist>>
    /\ CommitFrame

AddCommitments ==
    /\ cpc = "second"
    /\ added' = [comm |-> kzg10_Commitment_add(committed.comm, second.comm),
                 rand |-> kzg10_Randomness_add(committed.rand, second.rand)]
    /\ cpc' = "added"
    /\ UNCHANGED <<poly, committed, second, opening, verdict, dist>>
    /\ CommitFrame

Open ==
    /\ cpc = "committed"
    /\ \E z \in Fr :
           opening' = [point |-> z,
                       value |-> PolyEvaluate(poly.polynomial, z),
                       proof |-> KZG10_open(CommitterKey_powers(ck), poly.polynomial,
                                            z, committed.rand)]
    /\ cpc' = "opened"
    /\ UNCHANGED <<poly, committed, second, added, verdict, dist>>
    /\ CommitFrame

Check ==
    /\ cpc = "opened"
    /\ verdict' = Some(KZG10_check(vk.vk, committed.comm, opening.point,
                                   opening.value, opening.proof))
    /\ cpc' = "checked"
    /\ UNCHANGED <<poly, committed, second, added, opening, dist>>
    /\ CommitFrame

SharePolynomial ==
    /\ cpc = "start" /\ ~IsSome(poly.hiding_bound)
    /\ \E n \in Nums : \E r \in PolyDraws(n) :
           dist' = [shares |-> LabeledPolynomial_share(poly, n, r),
                    comms |-> <<>>, sum |-> None]
    /\ cpc' = "dist_shared"
    /\ UNCHANGED <<poly, committed, second, added, opening, verdict>>
    /\ CommitFrame

\* Each party commits to its share under the same committer key.
CommitShares ==
    /\ cpc = "dist_shared"
    /\ LET cs == [i \in 1 .. Len(dist.shares) |->
                     KZG10_commit(CommitterKey_powers(ck), dist.shares[i].polynomial,
                                  dist.shares[i].hiding_bound, PolyZero)]
       IN  IF \E i \in 1 .. Len(cs) : IsErr(cs[i])
           THEN /\ cpc' = "commit_failed"
                /\ UNCHANGED dist
           ELSE /\ cpc' = "dist_committed"
                /\ dist' = [dist EXCEPT !.comms = [i \in 1 .. Len(cs) |-> cs[i].comm]]
    /\ UNCHANGED <<poly, committed, second, added, opening, verdict>>
    /\ CommitFrame

SumShareCommitments ==
    /\ cpc = "dist_committed"
    /\ dist' = [dist EXCEPT
                   !.sum = Some(FoldAdd("kzg10_Commitment", kzg10_Commitment_zero,
                                        dist.comms))]
    /\ cpc' = "dist_summed"
    /\ UNCHANGED <<poly, committed, second, added, opening, verdict>>
    /\ CommitFrame

CommitNext ==
    \/ Commit
    \/ CommitSecond
    \/ AddCommitments
    \/ Open
    \/ Check
    \/ SharePolynomial
    \/ CommitShares
    \/ SumShareCommitments

SpecCommit == CommitInit /\ [][CommitNext]_vars

(***************************************************************************)
(* Properties of the secret-sharing extension.                             *)
(***************************************************************************)

\* C1: summing all shares of a value with the type's own Add (from zero()
\* or from the first share) gives back the value that was shared.
C1_ShareRoundTrip ==
    pc = "summed" => sum = Some(orig)

C1_Witness ==
    /\ pc = "summed" /\ kind = "kzg10_Proof" /\ num = MaxShares
    /\ IsSome(orig.random_v) /\ Unwrap(orig.random_v) # 0
    /\ shares[1] # orig
    /\ sum = Some(orig)

HasOptional(k, x) ==
    CASE k = "kzg10_Proof" -> IsSome(x.random_v)
      [] k = "marlin_Commitment" -> IsSome(x.shifted_comm)
      [] k = "marlin_Randomness" -> IsSome(x.shifted_rand)
      [] OTHER -> FALSE

\* C5: share(num, rng) returns exactly num shares, and each share carries
\* its optional component (shifted_comm, shifted_rand, random_v) exactly
\* when the original does.
C5_ShareCountAndShape ==
    pc \in {"shared", "summed"} =>
        /\ Len(shares) = num
        /\ \A i \in 1 .. Len(shares) :
               HasOptional(kind, shares[i]) = HasOptional(kind, orig)

C5_Witness ==
    /\ pc = "shared" /\ kind = "marlin_Commitment" /\ num = MaxShares
    /\ IsSome(orig.shifted_comm)
    /\ Len(shares) = MaxShares
    /\ \A i \in 1 .. Len(shares) : IsSome(shares[i].shifted_comm)

\* C6: every share of a LabeledPolynomial or LabeledCommitment has the
\* label and the degree bound (and, for a polynomial, the hiding bound) of
\* the original.
C6_ShareKeepsMetadata ==
    /\ (pc = "shared" /\ kind = "LabeledPolynomial") =>
           \A i \in 1 .. Len(shares) :
               /\ shares[i].label = orig.label
               /\ shares[i].degree_bound = orig.degree_bound
               /\ shares[i].hiding_bound = orig.hiding_bound
    /\ (pc = "shared" /\ kind = "LabeledCommitment") =>
           \A i \in 1 .. Len(shares) :
               /\ shares[i].label = orig.label
               /\ shares[i].degree_bound = orig.degree_bound

C6_Witness ==
    /\ pc = "shared" /\ kind = "LabeledPolynomial" /\ num = MaxShares
    /\ IsSome(orig.degree_bound) /\ IsSome(orig.hiding_bound)
    /\ shares[1].polynomial # orig.polynomial
    /\ shares[1].hiding_bound = orig.hiding_bound

(***************************************************************************)
(* Properties of labeled additions.                                        *)
(***************************************************************************)
OptMax(a, b) ==
    IF IsSome(a) /\ IsSome(b) THEN Some(MaxOf(Unwrap(a), Unwrap(b)))
    ELSE IF IsSome(a) THEN a ELSE b

\* C7: when two labeled commitments (or two labeled polynomials) are added
\* and at least one carries a degree bound, the degree bound of the sum is
\* the maximum of the operands' bounds.
C7_SumBoundIsMax ==
    (/\ op \in {"LabeledCommitment", "LabeledPolynomial"}
     /\ IsSome(res)
     /\ ~IsPanic(Unwrap(res))
     /\ (IsSome(lhs.degree_bound) \/ IsSome(rhs.degree_bound)))
        => Unwrap(res).degree_bound = OptMax(lhs.degree_bound, rhs.degree_bound)

(***************************************************************************)
(* Properties of the keys.                                                 *)
(***************************************************************************)

\* C8: a committer key trimmed to a supported degree d <= pp.max_degree()
\* has supported_degree() <= max_degree().
C8_SupportedWithinMax ==
    (/\ kpc \in {"trimmed", "answered"}
     /\ vk.supported_degree <= UniversalParams_max_degree(pp.params))
        => CommitterKey_supported_degree(ck) <= CommitterKey_max_degree(ck)

BoundsOf(v) == {v[i][1] : i \in 1 .. Len(v)}

\* C9: get_shift_power(bound) is Some(shift power paired with bound) when
\* the exact bound is in the sorted list, and None otherwise.
C9_ExactShiftLookup ==
    (kpc = "answered" /\ query.fn = "get_shift_power") =>
        LET dsp == vk.degree_bounds_and_shift_powers
        IN  IF IsSome(dsp) /\ query.arg \in BoundsOf(Unwrap(dsp))
            THEN /\ IsSome(answer)
                 /\ <<query.arg, Unwrap(answer)>> \in
                        {Unwrap(dsp)[i] : i \in 1 .. Len(Unwrap(dsp))}
                 /\ Unwrap(answer) = FPow(pp.beta, vk.max_degree - query.arg)
            ELSE answer = None

C9_Witness ==
    /\ kpc = "answered" /\ query.fn = "get_shift_power"
    /\ IsSome(vk.degree_bounds_and_shift_powers)
    /\ Len(Unwrap(vk.degree_bounds_and_shift_powers)) = MaxDegree - 1
    /\ query.arg = Unwrap(vk.degree_bounds_and_shift_powers)[MaxDegree - 1][1]
    /\ IsSome(answer)

\* C10: for an enforced bound b, shifted_powers(Some(b)) is the window
\* beta^(max_degree-b)*G .. beta^(max_degree)*G of b + 1 elements;
\* shifted_powers(None) is the whole shifted window.
C10_ShiftedWindow ==
    (/\ kpc = "answered" /\ query.fn = "shifted_powers"
     /\ IsSome(ck.shifted_powers))
        => IF IsSome(query.arg)
           THEN SeqContains(Unwrap(ck.enforced_degree_bounds), Unwrap(query.arg)) =>
                    LET b == Unwrap(query.arg)
                    IN  /\ IsSome(answer)
                        /\ Unwrap(answer).powers_of_g =
                               [j \in 1 .. (b + 1) |->
                                   FPow(pp.beta, ck.max_degree - b + j - 1)]
           ELSE /\ IsSome(answer)
                /\ Unwrap(answer).powers_of_g = Unwrap(ck.shifted_powers)

C10_Witness ==
    /\ kpc = "answered" /\ query.fn = "shifted_powers"
    /\ IsSome(ck.shifted_powers) /\ IsSome(query.arg)
    /\ Len(Unwrap(ck.enforced_degree_bounds)) >= 2
    /\ Unwrap(query.arg) = Unwrap(ck.enforced_degree_bounds)[1]
    /\ IsSome(answer)
    /\ Len(Unwrap(answer).powers_of_g) = Unwrap(query.arg) + 1
    /\ Len(Unwrap(answer).powers_of_g) < Len(Unwrap(ck.shifted_powers))

(***************************************************************************)
(* Properties of commit, open and check.                                   *)
(***************************************************************************)

\* C2: the sum (Commitment addition) of the non-hiding commitments of the
\* N shares of a polynomial p equals the commitment to p itself.
C2_DistributedCommitment ==
    cpc = "dist_summed" =>
        dist.sum = Some(KZG10_commit(CommitterKey_powers(ck), poly.polynomial,
                                     None, PolyZero).comm)

C2_Witness ==
    /\ cpc = "dist_summed"
    /\ Len(dist.shares) = MaxShares
    /\ PolyDegree(poly.polynomial) = MaxDeg
    /\ \A i \in 1 .. Len(dist.comms) : dist.comms[i] # Unwrap(dist.sum)
    /\ Unwrap(dist.sum).g # GZero

\* C3: commit(p) + commit(q) is the commitment to p + q under the sum of
\* the two randomness values.
C3_CommitHomomorphism ==
    cpc = "added" =>
        added.comm = KZG10_commit(CommitterKey_powers(ck),
                                  PolyAdd(poly.polynomial, second.poly.polynomial),
                                  poly.hiding_bound,
                                  added.rand.blinding_polynomial).comm

C3_Witness ==
    /\ cpc = "added"
    /\ IsSome(poly.hiding_bound)
    /\ kzg10_Randomness_is_hiding(committed.rand)
    /\ kzg10_Randomness_is_hiding(second.rand)
    /\ kzg10_Randomness_is_hiding(added.rand)
    /\ PolyDegree(poly.polynomial) = MaxDeg
    /\ ~PolyIsZero(second.poly.polynomial)
    /\ added.comm # committed.comm

\* C4: the proof that open produces for p at z passes check against the
\* commitment of p, the point z and the value p(z).
C4_Completeness ==
    cpc = "checked" => verdict = Some(TRUE)

C4_Witness ==
    /\ cpc = "checked"
    /\ PolyDegree(poly.polynomial) = MaxDeg
    /\ IsSome(opening.proof.random_v)
    /\ Unwrap(opening.proof.random_v) # 0
    /\ opening.proof.w # GZero
    /\ opening.point # 0
    /\ verdict = Some(TRUE)

(***************************************************************************)
(* Further properties of the keys.                                         *)
(***************************************************************************)

\* C11: shifted_powers(Some(b)) for a bound b that is not one of the key's
\* enforced degree bounds never returns Some(window): the assertion fails
\* when the key has shifted powers, and the answer is None when it has none.
C11_OnlyEnforcedBounds ==
    (/\ kpc = "answered" /\ query.fn = "shifted_powers"
     /\ IsSome(query.arg)
     /\ \/ ~IsSome(ck.enforced_degree_bounds)
        \/ ~SeqContains(Unwrap(ck.enforced_degree_bounds), Unwrap(query.arg)))
        => IF IsSome(ck.shifted_powers)
           THEN answer = Panic
           ELSE answer = None

C11_Witness ==
    /\ kpc = "answered" /\ query.fn = "shifted_powers"
    /\ IsSome(query.arg)
    /\ IsSome(ck.shifted_powers)
    /\ Len(Unwrap(ck.enforced_degree_bounds)) >= 2
    /\ ~SeqContains(Unwrap(ck.enforced_degree_bounds), Unwrap(query.arg))
    /\ Unwrap(query.arg) < Unwrap(ck.enforced_degree_bounds)[2]
    /\ Unwrap(query.arg) > Unwrap(ck.enforced_degree_bounds)[1]
    /\ answer = Panic

(***************************************************************************)
(* Serialization and deserialization of a committer key.                   *)
(***************************************************************************)
SerModes == {"compressed", "uncompressed", "unchecked"}

\* The committer keys that trim produces, with and without degree bounds.
SerKeys ==
    {MarlinKZG10_trim(KZG10_setup(d, beta, gamma), sd, 0, bounds).ck :
        <<d, sd, bounds>> \in
            {t \in (1 .. MaxDeg) \X (1 .. MaxDeg) \X OptionOf(SUBSET (1 .. MaxDeg)) :
                /\ t[2] <= t[1]
                /\ IsSome(t[3]) => \A b \in Unwrap(t[3]) : b <= t[1]},
        beta \in Betas, gamma \in Gammas}

SerInit ==
    /\ skey \in SerKeys
    /\ smode = "none" /\ wire = <<>> /\ written = 0
    /\ decoded = None /\ spc = "start"
    /\ ShareIdle /\ AddIdle /\ KeyIdle /\ CommitIdle /\ McIdle /\ RcIdle /\ RandIdle /\ LcIdle /\ LinIdle /\ WrIdle /\ TbIdle

SerFrame == UNCHANGED <<ShareVars, AddVars, KeyVars, CommitVars, McVars, RcVars, RandVars, LcVars, LinVars, WrVars, TbVars>>

Serialize ==
    /\ spc = "start"
    /\ \E mode \in SerModes, trailer \in {<<>>, <<1>>, <<0, 255>>} :
           LET bytes == CommitterKey_serialize(skey, mode)
           IN  /\ smode' = mode
               /\ wire' = bytes \o trailer
               /\ written' = Len(bytes)
    /\ spc' = "written"
    /\ UNCHANGED <<skey, decoded>>
    /\ SerFrame

Deserialize ==
    /\ spc = "written"
    /\ decoded' = CommitterKey_deserialize(wire, smode)
    /\ spc' = "read"
    /\ UNCHANGED <<skey, smode, wire, written>>
    /\ SerFrame

SerNext ==
    \/ Serialize
    \/ Deserialize

SpecSer == SerInit /\ [][SerNext]_vars

\* C12: deserialize(serialize(ck)), deserialize_uncompressed(
\* serialize_uncompressed(ck)) and deserialize_unchecked(
\* serialize_unchecked(ck)) each consume exactly the bytes written and
\* return a key equal to ck field by field.
C12_KeyRoundTrip ==
    spc = "read" =>
        /\ ~IsSerError(decoded)
        /\ decoded.val = skey
        /\ Len(decoded.rest) = Len(wire) - written

C12_Witness ==
    /\ spc = "read"
    /\ smode = "compressed"
    /\ IsSome(skey.shifted_powers)
    /\ Len(Unwrap(skey.enforced_degree_bounds)) = MaxDeg
    /\ Len(wire) > written
    /\ ~IsSerError(decoded)
    /\ decoded.val = skey

(***************************************************************************)
(* Commitments reachable by empty(), zero(), addition and share().         *)
(***************************************************************************)
McEmptyOf(k) ==
    IF k = "kzg10" THEN kzg10_Commitment_empty ELSE marlin_Commitment_empty

McZeroOf(k) ==
    IF k = "kzg10" THEN kzg10_Commitment_zero ELSE marlin_Commitment_zero

McAddOf(k, a, b) ==
    IF k = "kzg10" THEN kzg10_Commitment_add(a, b) ELSE marlin_Commitment_add(a, b)

McHasDegreeBound(k, c) ==
    IF k = "kzg10"
    THEN kzg10_Commitment_has_degree_bound(c)
    ELSE marlin_Commitment_has_degree_bound(c)

McInit ==
    /\ mckind \in {"kzg10", "marlin_pc"}
    /\ mca = None /\ mcb = None /\ mcpc = "start"
    /\ ShareIdle /\ AddIdle /\ KeyIdle /\ CommitIdle /\ SerIdle /\ RcIdle /\ RandIdle /\ LcIdle /\ LinIdle /\ WrIdle /\ TbIdle

McFrame == UNCHANGED <<ShareVars, AddVars, KeyVars, CommitVars, SerVars, RcVars, RandVars, LcVars, LinVars, WrVars, TbVars>>

\* a = empty(), or b = empty()
McEmpty ==
    /\ mcpc # "panicked"
    /\ \/ mca' = Some(McEmptyOf(mckind)) /\ UNCHANGED mcb
       \/ mcb' = Some(McEmptyOf(mckind)) /\ UNCHANGED mca
    /\ mcpc' = "empty"
    /\ UNCHANGED mckind
    /\ McFrame

\* a = zero(), or b = zero()
McZero ==
    /\ mcpc # "panicked"
    /\ \/ mca' = Some(McZeroOf(mckind)) /\ UNCHANGED mcb
       \/ mcb' = Some(McZeroOf(mckind)) /\ UNCHANGED mca
    /\ mcpc' = "zero"
    /\ UNCHANGED mckind
    /\ McFrame

\* a = a + b, or b = b + a
McAdd ==
    /\ mcpc # "panicked"
    /\ IsSome(mca) /\ IsSome(mcb)
    /\ \E swap \in BOOLEAN :
           LET x == IF swap THEN Unwrap(mcb) ELSE Unwrap(mca)
               y == IF swap THEN Unwrap(mca) ELSE Unwrap(mcb)
               r == McAddOf(mckind, x, y)
           IN  IF IsPanic(r)
               THEN mcpc' = "panicked" /\ UNCHANGED <<mca, mcb>>
               ELSE /\ mcpc' = "added"
                    /\ IF swap
                       THEN mcb' = Some(r) /\ UNCHANGED mca
                       ELSE mca' = Some(r) /\ UNCHANGED mcb
    /\ UNCHANGED mckind
    /\ McFrame

\* (a, b) = a.share(2)
McShare ==
    /\ mcpc # "panicked"
    /\ IsSome(mca)
    /\ \E r1 \in GDraws(2), r2 \in GDraws(2) :
           LET s == IF mckind = "kzg10"
                    THEN kzg10_Commitment_share(Unwrap(mca), 2, r1)
                    ELSE marlin_Commitment_share(Unwrap(mca), 2, r1, r2)
           IN  mca' = Some(s[1]) /\ mcb' = Some(s[2])
    /\ mcpc' = "shared"
    /\ UNCHANGED mckind
    /\ McFrame

McNext ==
    \/ McEmpty
    \/ McZero
    \/ McAdd
    \/ McShare

SpecMc == McInit /\ [][McNext]_vars

\* C13: has_degree_bound() == shifted_comm.is_some() for every marlin_pc
\* Commitment reachable by empty(), zero(), addition and share(), and a
\* kzg10 Commitment never reports a degree bound.
C13_HasDegreeBound ==
    \A c \in {mca, mcb} :
        IsSome(c) =>
            IF mckind = "kzg10"
            THEN ~McHasDegreeBound(mckind, Unwrap(c))
            ELSE McHasDegreeBound(mckind, Unwrap(c))
                     = ("v" \in DOMAIN Unwrap(c).shifted_comm)

C13_Witness ==
    /\ mckind = "marlin_pc" /\ mcpc = "added"
    /\ IsSome(mca) /\ IsSome(mcb)
    /\ Unwrap(mca).comm # kzg10_Commitment_zero
    /\ IsSome(Unwrap(mca).shifted_comm)
    /\ Unwrap(Unwrap(mca).shifted_comm) # kzg10_Commitment_zero
    /\ marlin_Commitment_has_degree_bound(Unwrap(mca))

(***************************************************************************)
(* Labeled polynomials and their reference-counted polynomials: new,       *)
(* clone, drop and add.                                                    *)
(***************************************************************************)
MaxCells == 2

MaxHandles == 3

Cells == 1 .. MaxCells

HandleIds == 1 .. MaxHandles

RcPolys == {<<1>>, <<2>>}

FreeCell == [polynomial |-> PolyZero, strong |-> 0]

\* Rc::new
Rc_new(hp, c, p) == [hp EXCEPT ![c] = [polynomial |-> p, strong |-> 1]]

\* Rc::clone
Rc_clone(hp, c) == [hp EXCEPT ![c].strong = @ + 1]

\* Drop for Rc: the allocation is freed with its last handle.
Rc_drop(hp, c) ==
    IF hp[c].strong = 1
    THEN [hp EXCEPT ![c] = FreeCell]
    ELSE [hp EXCEPT ![c].strong = @ - 1]

\* Rc::get_mut(..).is_some()
Rc_is_unique(hp, c) == hp[c].strong = 1

\* The labeled polynomial with the contents of its Rc in place of the Rc.
Deref(hp, lp) == [lp EXCEPT !.polynomial = hp[lp.polynomial].polynomial]

RcInit ==
    /\ heap = [c \in Cells |-> FreeCell]
    /\ handles = [h \in HandleIds |-> None]
    /\ lastop = None
    /\ ShareIdle /\ AddIdle /\ KeyIdle /\ CommitIdle /\ SerIdle /\ McIdle /\ RandIdle /\ LcIdle /\ LinIdle /\ WrIdle /\ TbIdle

RcFrame == UNCHANGED <<ShareVars, AddVars, KeyVars, CommitVars, SerVars, McVars, RandVars, LcVars, LinVars, WrVars, TbVars>>

RcNew ==
    /\ \E h \in HandleIds, c \in Cells, p \in RcPolys, l \in Labels :
           /\ handles[h] = None
           /\ heap[c].strong = 0
           /\ heap' = Rc_new(heap, c, p)
           /\ handles' = [handles EXCEPT ![h] =
                             Some(LabeledPolynomial_new(l, c, None, None))]
    /\ lastop' = None
    /\ RcFrame

RcClone ==
    /\ \E h \in HandleIds, h2 \in HandleIds :
           /\ IsSome(handles[h])
           /\ handles[h2] = None
           /\ heap' = Rc_clone(heap, Unwrap(handles[h]).polynomial)
           /\ handles' = [handles EXCEPT ![h2] = handles[h]]
    /\ lastop' = None
    /\ RcFrame

RcDrop ==
    /\ \E h \in HandleIds :
           /\ IsSome(handles[h])
           /\ heap' = Rc_drop(heap, Unwrap(handles[h]).polynomial)
           /\ handles' = [handles EXCEPT ![h] = None]
    /\ lastop' = None
    /\ RcFrame

\* handles[j] = handles[i] + handles[j]; both operands are moved into add.
\* After a panic both are dropped by unwinding.
RcAdd ==
    /\ \E i \in HandleIds, j \in HandleIds :
           /\ i # j
           /\ IsSome(handles[i]) /\ IsSome(handles[j])
           /\ LET self == Unwrap(handles[i])
                  other == Unwrap(handles[j])
                  r == LabeledPolynomial_add(
                           Deref(heap, self), Deref(heap, other),
                           Rc_is_unique(heap, other.polynomial))
              IN  IF IsPanic(r)
                  THEN /\ heap' = Rc_drop(Rc_drop(heap, self.polynomial),
                                          other.polynomial)
                       /\ handles' = [handles EXCEPT ![i] = None, ![j] = None]
                       /\ lastop' = Some([self |-> i, other |-> j,
                                          rc |-> other.polynomial,
                                          outcome |-> "panicked"])
                  ELSE /\ heap' = Rc_drop(
                                      [heap EXCEPT ![other.polynomial].polynomial =
                                                       r.polynomial],
                                      self.polynomial)
                       /\ handles' = [handles EXCEPT
                                         ![i] = None,
                                         ![j] = Some([r EXCEPT !.polynomial =
                                                         other.polynomial])]
                       /\ lastop' = Some([self |-> i, other |-> j,
                                          rc |-> other.polynomial,
                                          outcome |-> "added"])
    /\ RcFrame

RcNext ==
    \/ RcNew
    \/ RcClone
    \/ RcDrop
    \/ RcAdd

SpecRc == RcInit /\ [][RcNext]_vars

\* C14: the polynomial of a labeled polynomial is never mutated in place
\* while it is shared: in every step, the polynomial seen through a handle
\* that is not a consumed operand of an add is the same before and after.
C14_NeverMutatedWhileShared ==
    [][\A h \in HandleIds :
          (/\ IsSome(handles[h]) /\ IsSome(handles'[h])
           /\ IsSome(lastop') =>
                  h \notin {Unwrap(lastop').self, Unwrap(lastop').other})
              => /\ handles'[h] = handles[h]
                 /\ heap'[Unwrap(handles[h]).polynomial].polynomial
                        = heap[Unwrap(handles[h]).polynomial].polynomial]_vars

\* An add whose right operand was shared panicked, and the other holder of
\* that Rc still sees the polynomial.
C14_Witness ==
    /\ IsSome(lastop)
    /\ Unwrap(lastop).outcome = "panicked"
    /\ \E h \in HandleIds :
           /\ IsSome(handles[h])
           /\ Unwrap(handles[h]).polynomial = Unwrap(lastop).rc
           /\ heap[Unwrap(lastop).rc].polynomial \in RcPolys

(***************************************************************************)
(* Randomness: empty(), rand() and the sum of two values.                  *)
(***************************************************************************)
RandCoefs == {0, 1, Q - 1}

\* The coefficients a generator yields for one call.
Streams == [1 .. (MaxBlindDeg + 2) -> RandCoefs]

RandInit ==
    /\ rkind \in {"kzg10", "marlin_pc"}
    /\ rvals = <<>> /\ rlast = None /\ rsum = None
    /\ ShareIdle /\ AddIdle /\ KeyIdle /\ CommitIdle /\ SerIdle /\ McIdle /\ RcIdle /\ LcIdle /\ LinIdle /\ WrIdle /\ TbIdle

RandFrame == UNCHANGED <<ShareVars, AddVars, KeyVars, CommitVars, SerVars, McVars, RcVars, LcVars, LinVars, WrVars, TbVars>>

Sampled(hiding_bound, has_degree_bound, r) ==
    /\ rvals' = Append(rvals, r.value)
    /\ rlast' = Some([hiding_bound |-> hiding_bound,
                      has_degree_bound |-> has_degree_bound,
                      calls |-> r.rng.calls])
    /\ UNCHANGED <<rkind, rsum>>
    /\ RandFrame

RandKzg10 ==
    /\ rkind = "kzg10" /\ Len(rvals) < 2
    /\ \E hiding_bound \in 0 .. MaxBlindDeg, has_degree_bound \in BOOLEAN,
          st \in Streams :
           Sampled(hiding_bound, has_degree_bound,
                   kzg10_Randomness_rand(hiding_bound, has_degree_bound, None,
                                         NewRng(<<st>>)))

RandMarlin ==
    /\ rkind = "marlin_pc" /\ Len(rvals) < 1
    /\ \E hiding_bound \in 0 .. MaxBlindDeg, has_degree_bound \in BOOLEAN,
          st1 \in Streams, st2 \in Streams :
           Sampled(hiding_bound, has_degree_bound,
                   marlin_Randomness_rand(hiding_bound, has_degree_bound, None,
                                          NewRng(<<st1, st2>>)))

RandEmpty ==
    /\ Len(rvals) < 2
    /\ rvals' = Append(rvals, IF rkind = "kzg10"
                              THEN kzg10_Randomness_empty
                              ELSE marlin_Randomness_empty)
    /\ rlast' = None
    /\ UNCHANGED <<rkind, rsum>>
    /\ RandFrame

RandAdd ==
    /\ Len(rvals) = 2 /\ rsum = None
    /\ rsum' = Some(IF rkind = "kzg10"
                    THEN kzg10_Randomness_add(rvals[1], rvals[2])
                    ELSE marlin_Randomness_add(rvals[1], rvals[2]))
    /\ rlast' = None
    /\ UNCHANGED <<rkind, rvals>>
    /\ RandFrame

RandNext ==
    \/ RandKzg10
    \/ RandMarlin
    \/ RandEmpty
    \/ RandAdd

SpecRand == RandInit /\ [][RandNext]_vars

NonZeroPoly(p) == \E i \in 1 .. Len(p) : p[i] # 0

\* C15: kzg10 Randomness::is_hiding() is true iff the blinding polynomial
\* is non-zero; empty() is not hiding; the sum of two randomness values is
\* hiding exactly when the sum of their blinding polynomials is non-zero.
C15_HidingIffNonZero ==
    rkind = "kzg10" =>
        /\ ~kzg10_Randomness_is_hiding(kzg10_Randomness_empty)
        /\ \A i \in 1 .. Len(rvals) :
               kzg10_Randomness_is_hiding(rvals[i])
                   <=> NonZeroPoly(rvals[i].blinding_polynomial)
        /\ IsSome(rsum) =>
               (kzg10_Randomness_is_hiding(Unwrap(rsum))
                    <=> NonZeroPoly(PolyAdd(rvals[1].blinding_polynomial,
                                            rvals[2].blinding_polynomial)))

\* Two hiding values whose sum is not hiding.
C15_Witness ==
    /\ rkind = "kzg10" /\ IsSome(rsum)
    /\ kzg10_Randomness_is_hiding(rvals[1])
    /\ kzg10_Randomness_is_hiding(rvals[2])
    /\ PolyDegree(rvals[1].blinding_polynomial) = 0
    /\ ~kzg10_Randomness_is_hiding(Unwrap(rsum))

\* C16: rand(hiding_bound, ...) samples the blinding polynomial with degree
\* parameter hiding_bound + 1; marlin_pc rand has a shifted randomness iff
\* has_degree_bound, sampled by a separate draw with the same parameter.
C16_RandDegree ==
    IsSome(rlast) =>
        LET l == Unwrap(rlast)
            v == rvals[Len(rvals)]
        IN  /\ \A i \in 1 .. Len(l.calls) : l.calls[i] = l.hiding_bound + 1
            /\ IF rkind = "kzg10"
               THEN Len(l.calls) = 1
               ELSE /\ IsSome(v.shifted_rand) <=> l.has_degree_bound
                    /\ Len(l.calls) = IF l.has_degree_bound THEN 2 ELSE 1

C16_Witness ==
    /\ rkind = "marlin_pc" /\ IsSome(rlast)
    /\ Unwrap(rlast).has_degree_bound
    /\ Unwrap(rlast).hiding_bound = MaxBlindDeg
    /\ Unwrap(rlast).calls = <<MaxBlindDeg + 1, MaxBlindDeg + 1>>
    /\ IsSome(rvals[1].shifted_rand)
    /\ PolyDegree(Unwrap(rvals[1].shifted_rand).blinding_polynomial) = MaxBlindDeg + 1
    /\ PolyDegree(rvals[1].rand.blinding_polynomial) = MaxBlindDeg + 1
    /\ Unwrap(rvals[1].shifted_rand) # rvals[1].rand

(***************************************************************************)
(* Comparison of a term of a linear combination with a bare label.         *)
(***************************************************************************)
LcLabels == {"", "a", "b", "ab", "one", "One", "1"}

LcInit ==
    /\ lcterm = LCTerm_One
    /\ lcother \in LcLabels
    /\ lceq = None
    /\ ShareIdle /\ AddIdle /\ KeyIdle /\ CommitIdle /\ SerIdle /\ McIdle /\ RcIdle /\ RandIdle /\ LinIdle /\ WrIdle /\ TbIdle

LcFrame == UNCHANGED <<ShareVars, AddVars, KeyVars, CommitVars, SerVars, McVars, RcVars, RandVars, LinVars, WrVars, TbVars>>

\* term = label.into()
LcFrom ==
    /\ lceq = None
    /\ \E l \in LcLabels : lcterm' = LCTerm_from(l)
    /\ UNCHANGED <<lcother, lceq>>
    /\ LcFrame

\* term == label
LcEq ==
    /\ lceq = None
    /\ lceq' = Some(LCTerm_eq(lcterm, lcother))
    /\ UNCHANGED <<lcterm, lcother>>
    /\ LcFrame

LcNext ==
    \/ LcFrom
    \/ LcEq

SpecLc == LcInit /\ [][LcNext]_vars

\* C17: LCTerm::PolyLabel(l) == s holds iff l equals s, and LCTerm::One == s
\* is false for every label s, including the empty string.
C17_TermEqLabel ==
    IsSome(lceq) =>
        IF LCTerm_is_one(lcterm)
        THEN Unwrap(lceq) = FALSE
        ELSE Unwrap(lceq) = (lcterm.label = lcother)

C17_Witness ==
    /\ IsSome(lceq)
    /\ lcterm = LCTerm_One
    /\ lcother = ""
    /\ Unwrap(lceq) = FALSE

\* C18: universal parameters produced by setup have D + 1 >= 2 powers of
\* G (setup rejects max_degree 0), max_degree() returns D, and the
\* subtraction powers_of_g.len() - 1 does not underflow.
C18_MaxDegreeOfSetup ==
    /\ kpc = "setup_failed" => pp.max_degree = 0
    /\ kpc \in {"setup", "trimmed", "trim_failed", "answered"} =>
           /\ pp.max_degree >= 1
           /\ Len(pp.params.powers_of_g) = pp.max_degree + 1
           /\ UniversalParams_max_degree(pp.params) # Underflow
           /\ UniversalParams_max_degree(pp.params) = pp.max_degree
    /\ (kpc = "answered" /\ query.fn = "max_degree") => answer = pp.max_degree

C18_Witness ==
    /\ kpc = "answered" /\ query.fn = "max_degree"
    /\ pp.max_degree = 1
    /\ Len(pp.params.powers_of_g) = 2
    /\ answer = 1

(***************************************************************************)
(* Further properties of commit.                                           *)
(***************************************************************************)

\* C19: a polynomial that passes the degree check of commit,
\* degree(p) <= ck.supported_degree(), has at most ck.powers.len()
\* coefficients.
C19_CheckedDegreeFitsPowers ==
    (/\ cpc \in {"committed", "commit_failed"}
     /\ committed # Err("PolynomialDegreeTooLarge"))
        => PolyDegree(poly.polynomial) + 1 <= Len(ck.powers)

(***************************************************************************)
(* Further properties of addition.                                         *)
(***************************************************************************)

\* C20: Proof::zero() is a two-sided identity of Proof addition: for every
\* proof p, with or without random_v, p + zero() and zero() + p both
\* return p.
C20_ProofZeroIdentity ==
    (op = "kzg10_Proof" /\ IsSome(res)) =>
        /\ rhs = kzg10_Proof_zero => Unwrap(res) = lhs
        /\ lhs = kzg10_Proof_zero => Unwrap(res) = rhs

\* C21: addition of marlin_pc Commitments is commutative for all operands:
\* a + b and b + a both return and are equal, also when exactly one of a
\* and b carries a shifted commitment.
C21_CommitmentAddCommutes ==
    (op = "marlin_Commitment" /\ IsSome(res)) =>
        /\ ~IsPanic(Unwrap(res))
        /\ ~IsPanic(marlin_Commitment_add(rhs, lhs))
        /\ Unwrap(res) = marlin_Commitment_add(rhs, lhs)

ShiftedOrZero(r) ==
    IF IsSome(r.shifted_rand)
    THEN Unwrap(r.shifted_rand).blinding_polynomial
    ELSE PolyZero

\* C22: for marlin_pc Randomness, r + (1, s) equals r + s; in both an
\* absent shifted_rand counts as the zero polynomial, and the result has
\* shifted_rand present iff r or s has it.
C22_ScaledByOneIsPlain ==
    (/\ op = "marlin_Randomness" /\ IsSome(res)
     /\ Unwrap(res).factor \in {None, Some(1)})
        => LET v == Unwrap(res).value
           IN  /\ v = marlin_Randomness_add(lhs, rhs)
               /\ v = marlin_Randomness_add_assign_scaled(lhs, 1, rhs)
               /\ IsSome(v.shifted_rand)
                      <=> (IsSome(lhs.shifted_rand) \/ IsSome(rhs.shifted_rand))
               /\ IsSome(v.shifted_rand) =>
                      Unwrap(v.shifted_rand).blinding_polynomial
                          = PolyAdd(ShiftedOrZero(lhs), ShiftedOrZero(rhs))

C22_Witness ==
    /\ op = "marlin_Randomness" /\ IsSome(res)
    /\ Unwrap(res).factor = Some(1)
    /\ ~IsSome(lhs.shifted_rand)
    /\ IsSome(rhs.shifted_rand)
    /\ PolyDegree(Unwrap(rhs.shifted_rand).blinding_polynomial) = 1
    /\ Unwrap(res).value.shifted_rand = rhs.shifted_rand
    /\ ~PolyIsZero(lhs.rand.blinding_polynomial)
    /\ ~PolyIsZero(rhs.rand.blinding_polynomial)

(***************************************************************************)
(* LinearCombination under push, +=, -= and *=.                            *)
(***************************************************************************)
MaxTerms == 3

LinTerms == {LCTerm_One, LCTerm_PolyLabel("a"), LCTerm_PolyLabel("b")}

LinPairs == {LCPair(2, t) : t \in LinTerms}

LinCoeffs == {0, 2, Q - 1}

LinOthers ==
    {LinearCombination_new("o", <<p>>) : p \in LinPairs}
        \cup {LinearCombination_new("o",
                  <<LCPair(1, LCTerm_PolyLabel("a")), LCPair(Q - 1, LCTerm_One)>>),
              LinearCombination_new("o",
                  <<LCPair(2, LCTerm_PolyLabel("b")), LCPair(1, LCTerm_PolyLabel("a"))>>)}

LinInit ==
    /\ \E label \in {"lc", ""} :
           lin \in {LinearCombination_empty(label)}
                       \cup {LinearCombination_new(label, <<p>>) : p \in LinPairs}
    /\ linfirst = lin.terms
    /\ linprev = lin
    /\ linop = [fn |-> "new"]
    /\ ShareIdle /\ AddIdle /\ KeyIdle /\ CommitIdle /\ SerIdle /\ McIdle /\ RcIdle /\ RandIdle /\ LcIdle /\ WrIdle /\ TbIdle

LinFrame == UNCHANGED <<ShareVars, AddVars, KeyVars, CommitVars, SerVars, McVars, RcVars, RandVars, LcVars, WrVars, TbVars>>

LinStep(fn, coeff, other, result) ==
    /\ Len(result.terms) <= MaxTerms
    /\ lin' = result
    /\ linprev' = lin
    /\ linop' = [fn |-> fn, coeff |-> coeff, other |-> other]
    /\ UNCHANGED linfirst
    /\ LinFrame

LinPush ==
    \E p \in LinPairs :
        LinStep("push", p.coeff, LinearCombination_new("", <<p>>),
                LinearCombination_push(lin, p))

LinAddScaled ==
    \E c \in LinCoeffs, o \in LinOthers :
        LinStep("add_scaled", c, o, LinearCombination_add_assign_scaled(lin, c, o))

LinSubScaled ==
    \E c \in LinCoeffs, o \in LinOthers :
        LinStep("sub_scaled", c, o, LinearCombination_sub_assign_scaled(lin, c, o))

LinAdd ==
    \E o \in LinOthers :
        LinStep("add", 1, o, LinearCombination_add_assign(lin, o))

LinSub ==
    \E o \in LinOthers :
        LinStep("sub", 1, o, LinearCombination_sub_assign(lin, o))

LinAddConst ==
    \E c \in LinCoeffs :
        LinStep("add_const", c, LinearCombination_empty(""),
                LinearCombination_add_assign_const(lin, c))

LinSubConst ==
    \E c \in LinCoeffs :
        LinStep("sub_const", c, LinearCombination_empty(""),
                LinearCombination_sub_assign_const(lin, c))

LinMul ==
    \E c \in LinCoeffs :
        LinStep("mul", c, LinearCombination_empty(""),
                LinearCombination_mul_assign(lin, c))

LinNext ==
    \/ LinPush
    \/ LinAddScaled
    \/ LinSubScaled
    \/ LinAdd
    \/ LinSub
    \/ LinAddConst
    \/ LinSubConst
    \/ LinMul

SpecLin == LinInit /\ [][LinNext]_vars

\* The LCTerms of a term list, in order, without their coefficients.
TermsOf(terms) == [i \in 1 .. Len(terms) |-> terms[i].term]

IsPrefix(s, t) ==
    /\ Len(s) <= Len(t)
    /\ \A i \in 1 .. Len(s) : s[i] = t[i]

\* C23: no operator changes the label, and none reorders, merges or removes
\* a term: the LCTerms the combination was built with, and those it had
\* before the last operator, are a prefix of the LCTerms it has now; *=
\* leaves the LCTerms as they were; adding or subtracting a combination
\* makes the list longer by exactly that combination's number of terms.
C23_OperatorsOnlyAppend ==
    /\ lin.label = linprev.label
    /\ IsPrefix(TermsOf(linfirst), TermsOf(lin.terms))
    /\ IsPrefix(TermsOf(linprev.terms), TermsOf(lin.terms))
    /\ linop.fn = "mul" => TermsOf(lin.terms) = TermsOf(linprev.terms)
    /\ linop.fn \in {"add", "sub", "add_scaled", "sub_scaled"} =>
           Len(lin.terms) = Len(linprev.terms) + Len(linop.other.terms)
    /\ linop.fn \in {"push", "add_const", "sub_const"} =>
           Len(lin.terms) = Len(linprev.terms) + 1

\* A non-empty combination has had a two-term combination added to it and
\* has then been multiplied by a coefficient other than 0 and 1.
C23_Witness ==
    /\ linop.fn = "mul"
    /\ linop.coeff \notin {0, 1}
    /\ Len(linfirst) = 1
    /\ Len(lin.terms) = 3
    /\ lin.terms[2].term # lin.terms[3].term
    /\ lin.terms # linprev.terms


\* An assignment of field values to the labels that occur in terms.
LinAssignments == [{"a", "b"} -> Fr]

TermValue(term, asg) == IF LCTerm_is_one(term) THEN 1 ELSE asg[term.label]

RECURSIVE TermsValue(_, _)
TermsValue(terms, asg) ==
    IF Len(terms) = 0 THEN 0
    ELSE FAdd(FMul(Head(terms).coeff, TermValue(Head(terms).term, asg)),
              TermsValue(Tail(terms), asg))

\* The value of a combination: the sum of coeff * value(term), One valued 1.
ValueOf(lc, asg) == TermsValue(lc.terms, asg)

\* C24: under every assignment of field values to labels the operators are
\* linear in the value: += (c, other) adds c * value(other), -= (c, other)
\* subtracts it, += other and -= other add and subtract value(other),
\* += c and -= c add and subtract c, and *= c multiplies the value by c.
C24_OperatorsAreLinear ==
    \A asg \in LinAssignments :
        LET before == ValueOf(linprev, asg)
            after == ValueOf(lin, asg)
            c == linop.coeff
            o == ValueOf(linop.other, asg)
        IN  /\ linop.fn = "add_scaled" => after = FAdd(before, FMul(c, o))
            /\ linop.fn = "sub_scaled" => after = FSub(before, FMul(c, o))
            /\ linop.fn = "add" => after = FAdd(before, o)
            /\ linop.fn = "sub" => after = FSub(before, o)
            /\ linop.fn = "add_const" => after = FAdd(before, c)
            /\ linop.fn = "sub_const" => after = FSub(before, c)
            /\ linop.fn = "mul" => after = FMul(c, before)
            /\ linop.fn = "push" => after = FAdd(before, o)

\* A two-term combination scaled by 2 has been subtracted from a one-term
\* combination, and some assignment gives both a non-zero value.
C24_Witness ==
    /\ linop.fn = "sub_scaled"
    /\ linop.coeff = 2
    /\ Len(linop.other.terms) = 2
    /\ Len(linprev.terms) = 1
    /\ \E asg \in LinAssignments :
           /\ ValueOf(linop.other, asg) # 0
           /\ ValueOf(linprev, asg) # 0
           /\ ValueOf(lin, asg) # ValueOf(linprev, asg)


\* C25: for every committer key serialized_size() is the number of bytes
\* serialize() writes and uncompressed_size() is the number of bytes
\* serialize_uncompressed() writes.
C25_SizeIsBytesWritten ==
    /\ (spc \in {"written", "read"} /\ smode = "compressed") =>
           CommitterKey_serialized_size(skey) = written
    /\ (spc \in {"written", "read"} /\ smode = "uncompressed") =>
           CommitterKey_uncompressed_size(skey) = written

\* The uncompressed half of C25 alone, and the compressed half for keys
\* without shifted powers.
SizeIsBytesWrittenUncompressed ==
    /\ (spc \in {"written", "read"} /\ smode = "uncompressed") =>
           CommitterKey_uncompressed_size(skey) = written
    /\ (spc \in {"written", "read"} /\ smode = "compressed"
            /\ (~IsSome(skey.shifted_powers) \/ Len(Unwrap(skey.shifted_powers)) = 0)) =>
           CommitterKey_serialized_size(skey) = written

(***************************************************************************)
(* Serialization of a committer key to a writer that can fail.             *)
(***************************************************************************)
WrInit ==
    /\ wkey \in SerKeys
    /\ wmode = "none" /\ wcap = 0 /\ wres = None
    /\ ShareIdle /\ AddIdle /\ KeyIdle /\ CommitIdle /\ SerIdle /\ McIdle /\ RcIdle /\ RandIdle /\ LcIdle /\ LinIdle /\ TbIdle

WrFrame == UNCHANGED <<ShareVars, AddVars, KeyVars, CommitVars, SerVars, McVars, RcVars, RandVars, LcVars, LinVars, TbVars>>

WrSerializeTo(mode) ==
    /\ wmode = "none"
    /\ \E cap \in 0 .. Len(CommitterKey_serialize(wkey, mode)) :
           /\ wcap' = cap
           /\ wres' = CommitterKey_serialize_to(wkey, mode, cap)
    /\ wmode' = mode
    /\ UNCHANGED wkey
    /\ WrFrame

WrSerialize == WrSerializeTo("compressed")

WrSerializeUncompressed == WrSerializeTo("uncompressed")

WrNext ==
    \/ WrSerialize
    \/ WrSerializeUncompressed

SpecWr == WrInit /\ [][WrNext]_vars

\* C26: when the writer fails while any field is being written, serialize
\* returns Err and does not panic; when it does not fail, serialize
\* returns Ok.
C26_WriteFailureIsErr ==
    wmode = "compressed" =>
        /\ ~IsPanic(wres)
        /\ wcap < Len(CommitterKey_serialize(wkey, "compressed")) => IsSerError(wres)
        /\ wcap >= Len(CommitterKey_serialize(wkey, "compressed")) => ~IsSerError(wres)

\* serialize_uncompressed reports every write failure as Err, and serialize
\* does so for every field but shifted_powers.
WriteFailureIsErrElsewhere ==
    /\ wmode = "uncompressed" =>
           /\ ~IsPanic(wres)
           /\ wcap < Len(CommitterKey_serialize(wkey, "uncompressed")) <=> IsSerError(wres)
    /\ (wmode = "compressed" /\ IsPanic(wres)) =>
           /\ wcap >= Len(VecG1_serialize(wkey.powers, "uncompressed"))
           /\ wcap < Len(VecG1_serialize(wkey.powers, "uncompressed"))
                      + Len(OptionVecG1_serialize(wkey.shifted_powers, "compressed"))

(***************************************************************************)
(* ToBytes of two proofs and of two marlin_pc commitments.                 *)
(***************************************************************************)
TbInit ==
    /\ tbkind = "none"
    /\ tba = None /\ tbb = None /\ tbbytesa = <<>> /\ tbbytesb = <<>>
    /\ ShareIdle /\ AddIdle /\ KeyIdle /\ CommitIdle /\ SerIdle /\ McIdle /\ RcIdle /\ RandIdle /\ LcIdle /\ LinIdle /\ WrIdle

TbFrame == UNCHANGED <<ShareVars, AddVars, KeyVars, CommitVars, SerVars, McVars, RcVars, RandVars, LcVars, LinVars, WrVars>>

TbWriteProofs ==
    /\ tbkind = "none"
    /\ \E a \in Proofs, b \in Proofs :
           /\ tba' = a /\ tbb' = b
           /\ tbbytesa' = kzg10_Proof_write(a)
           /\ tbbytesb' = kzg10_Proof_write(b)
    /\ tbkind' = "kzg10_Proof"
    /\ TbFrame

TbWriteCommitments ==
    /\ tbkind = "none"
    /\ \E a \in MarlinCommitments, b \in MarlinCommitments :
           /\ tba' = a /\ tbb' = b
           /\ tbbytesa' = marlin_Commitment_write(a)
           /\ tbbytesb' = marlin_Commitment_write(b)
    /\ tbkind' = "marlin_Commitment"
    /\ TbFrame

TbNext ==
    \/ TbWriteProofs
    \/ TbWriteCommitments

SpecTb == TbInit /\ [][TbNext]_vars

\* C27: the bytes carry the presence of the optional component: two proofs
\* that differ, and two marlin_pc commitments that differ, never write the
\* same bytes.
C27_DifferentValuesDifferentBytes ==
    (tbkind # "none" /\ tba # tbb) => tbbytesa # tbbytesb

\* The commitment half of C27 alone.
CommitmentBytesCarryPresence ==
    (tbkind = "marlin_Commitment" /\ tba # tbb) => tbbytesa # tbbytesb

=============================================================================
